---- MODULE Spec2Model ----
(***************************************************************************)
(* x402-agent-pay: the spending policy engine (PolicyEnforcer, the         *)
(* enhanced variant of policy.ts), its persisted spending file, and the    *)
(* AgentPayClient.fetch flow that drives it, and the ReceiptStore.         *)
(*                                                                         *)
(* Conventions of the model                                                *)
(*  - Time is counted in whole minutes since 2024-01-01T00:00Z, a Monday   *)
(*    and the first day of a month; Date.now() is the variable now.        *)
(*  - A period key (date, weekStart, monthStart) is kept as the day number *)
(*    its string denotes; the formatting is one-to-one on day numbers.     *)
(*  - Amounts are whole numbers (exactly representable as JS numbers), so  *)
(*    + and > on them are exact.                                           *)
(*  - A string is a sequence of one-character strings, so that             *)
(*    toLowerCase() is computed character by character.                    *)
(*  - An optional number (weeklyLimit?: number) is <<>> when undefined and *)
(*    <<v>> when set.                                                      *)
(***************************************************************************)
EXTENDS Integers, Sequences, FiniteSets, TLC

VARIABLES
    now,        \* Date.now(), in minutes
    tz,         \* the host's offset from UTC, in minutes (local = UTC + tz)
    policy,     \* the policy object that PolicyEnforcer.policy refers to
    peers,      \* the other holders of a policy object in the process: for each,
                \* <<>> when it refers to the very object this.policy refers
                \* to, else << the value of its own object >>
    discovery,  \* the default ServiceDiscovery: its cache and cacheTime
    state,      \* PolicyEnforcer.state (SpendingState)
    file,       \* the spending file at spendingPath
    nRecords,   \* number of recordPayment calls made so far (bounded)
    last,       \* the last direct PolicyEnforcer call: when it was made, what it
                \* returned and, for checkPayment and recordPayment, what it found
    seen,       \* what the first noted getStatus() of this instance since its
                \* last recordPayment returned and when, <<>> if there was none
    calls,      \* the AgentPayClient.fetch calls: where each stands, and its locals
    receipts,   \* ReceiptStore.receipts
    receiptsFile \* the receipts file at receiptsPath

enforcerVars == <<now, tz, policy, peers, discovery, state, file, nRecords, last, seen>>

clientVars == <<calls, receipts, receiptsFile>>

vars == <<now, tz, policy, peers, discovery, state, file, nRecords, last, seen, calls,
          receipts, receiptsFile>>

----------------------------------------------------------------------------
(* Bounds *)

MaxRecords == 2
MaxAmount == 2
MaxCalls == 2
MaxReceipts == 2
MaxFieldLen == 2

Amounts == 0..MaxAmount

Recipients == { <<"A">>, <<"a">>, <<"b">> }

----------------------------------------------------------------------------
(* Strings *)

LowerChar(c) ==
    CASE c = "A" -> "a"
      [] c = "B" -> "b"
      [] c = "C" -> "c"
      [] c = "D" -> "d"
      [] c = "E" -> "e"
      [] c = "F" -> "f"
      [] OTHER -> c

\* A string left in the case it was given in.
toLowerCaseKeepsCase(s) == s

toLowerCase(s) == [i \in DOMAIN s |-> LowerChar(s[i])]

----------------------------------------------------------------------------
(* Calendar *)

MinutesPerDay == 24 * 60

OneHour == 60

\* Day numbers of the first day of each month from 2023-12 to 2024-04.
MonthFirstDays == { 0 - 31, 0, 31, 60, 91 }

SetMax(S) == CHOOSE x \in S : \A y \in S : y <= x

UtcDay(t) == t \div MinutesPerDay

LocalDay(t, offset) == (t + offset) \div MinutesPerDay

\* Date.prototype.getDay() of a local day: 0 is Sunday; day 0 is a Monday.
getDay(localDay) == (localDay + 1) % 7

MonthStartOf(localDay) == SetMax({ m \in MonthFirstDays : m <= localDay })

getDateKeys(t, offset) ==
    LET dayOfWeek    == getDay(LocalDay(t, offset))
        mondayOffset == IF dayOfWeek = 0 THEN 0 - 6 ELSE 1 - dayOfWeek
        monday       == t + mondayOffset * MinutesPerDay
    IN  [ date       |-> UtcDay(t),
          weekStart  |-> UtcDay(monday),
          monthStart |-> MonthStartOf(LocalDay(t, offset)) ]

----------------------------------------------------------------------------
(* SpendingState *)

EmptyMap == [ k \in {} |-> 0 ]

MapGet(m, k) == IF k \in DOMAIN m THEN m[k] ELSE 0

MapPut(m, k, v) == [ x \in (DOMAIN m) \cup {k} |-> IF x = k THEN v ELSE m[x] ]

\* A default state that carries the period keys of the epoch.
defaultStateEpochKeys(t, offset) ==
    LET keys == getDateKeys(0, offset)
    IN  [ date               |-> keys.date,
          weekStart          |-> keys.weekStart,
          monthStart         |-> keys.monthStart,
          dailySpent         |-> 0,
          weeklySpent        |-> 0,
          monthlySpent       |-> 0,
          transactions       |-> 0,
          recentTransactions |-> <<>>,
          perRecipient       |-> EmptyMap ]

defaultState(t, offset) ==
    LET keys == getDateKeys(t, offset)
    IN  [ date               |-> keys.date,
          weekStart          |-> keys.weekStart,
          monthStart         |-> keys.monthStart,
          dailySpent         |-> 0,
          weeklySpent        |-> 0,
          monthlySpent       |-> 0,
          transactions       |-> 0,
          recentTransactions |-> <<>>,
          perRecipient       |-> EmptyMap ]

\* A velocity list whose entries never age.
WithinHourKeepsAll(txs, t) == txs

\* A velocity list that keeps the entry that is one hour old to the tick.
WithinHourInclusive(txs, t) == SelectSeq(txs, LAMBDA x : x.timestamp >= t - OneHour)

WithinHour(txs, t) == SelectSeq(txs, LAMBDA x : x.timestamp > t - OneHour)

\* A new day that also clears the week's and the month's total.
ResetDailyClearsAll(st, keys) ==
    IF st.date # keys.date
    THEN [ st EXCEPT !.date = keys.date, !.dailySpent = 0,
                     !.transactions = 0, !.perRecipient = EmptyMap,
                     !.weeklySpent = 0, !.monthlySpent = 0 ]
    ELSE st

\* A new day that keeps the per-recipient totals of the day before.
ResetDailyKeepsRecipients(st, keys) ==
    IF st.date # keys.date
    THEN [ st EXCEPT !.date = keys.date, !.dailySpent = 0, !.transactions = 0 ]
    ELSE st

ResetDaily(st, keys) ==
    IF st.date # keys.date
    THEN [ st EXCEPT !.date = keys.date, !.dailySpent = 0,
                     !.transactions = 0, !.perRecipient = EmptyMap ]
    ELSE st

\* A new week that carries the ending week's total over.
ResetWeeklyCarriesOver(st, keys) ==
    IF st.weekStart # keys.weekStart
    THEN [ st EXCEPT !.weekStart = keys.weekStart ]
    ELSE st

ResetWeekly(st, keys) ==
    IF st.weekStart # keys.weekStart
    THEN [ st EXCEPT !.weekStart = keys.weekStart, !.weeklySpent = 0 ]
    ELSE st

ResetMonthly(st, keys) ==
    IF st.monthStart # keys.monthStart
    THEN [ st EXCEPT !.monthStart = keys.monthStart, !.monthlySpent = 0 ]
    ELSE st

ResetPeriods(st, keys) == ResetMonthly(ResetWeekly(ResetDaily(st, keys), keys), keys)

NoFile == [ kind |-> "absent" ]

Corrupt == [ kind |-> "corrupt" ]

\* loadState: the file's state with stale buckets reset and the velocity list
\* pruned; the default state when there is no file or it does not parse.
loadState(f, t, offset) ==
    IF f.kind # "json"
    THEN defaultState(t, offset)
    ELSE LET data == ResetPeriods(f.data, getDateKeys(t, offset))
         IN  [ data EXCEPT !.recentTransactions = WithinHour(@, t) ]

\* saveState: JSON.stringify of whole numbers and strings parses back unchanged.
saveState(st) == [ kind |-> "json", data |-> st ]

----------------------------------------------------------------------------
(* PolicyEnforcer.checkPayment *)

IsSet(opt) == opt # <<>>

InList(list, normalizedRecipient) ==
    \E i \in DOMAIN list : toLowerCase(list[i]) = normalizedRecipient

\* A projection that leaves out what was already spent.
ProjectedForgetsSpent(spent, amountUsdc) == amountUsdc

\* const projectedDaily = this.state.dailySpent + amountUsdc, and its likes
Projected(spent, amountUsdc) == spent + amountUsdc

\* A limit that already denies the payment landing on it.
ExceedsOrReaches(projected, limit) == projected >= limit

Exceeds(projected, limit) == projected > limit

\* A velocity check that counts the payment being checked.
VelocityCountsThisOne(recentCount, limit) == recentCount + 1 >= limit

VelocityReached(recentCount, limit) == recentCount >= limit

Allowed == [ allowed |-> TRUE, reason |-> "" ]

\* { allowed: false, reason }: the reason is kept as the name of the check.
Denied(why) == [ allowed |-> FALSE, reason |-> why ]

\* The first six checks of checkPayment: the amount and the ledger's totals.
checkLimits(pol, st, t, amountUsdc, recipient) ==
    LET normalizedRecipient == toLowerCase(recipient)
        recentCount    == Len(WithinHour(st.recentTransactions, t))
        recipientSpent == MapGet(st.perRecipient, normalizedRecipient)
    IN  IF Exceeds(amountUsdc, pol.maxPerTransaction)
            THEN Denied("per-transaction")
        ELSE IF Exceeds(Projected(st.dailySpent, amountUsdc), pol.dailyLimit)
            THEN Denied("daily")
        ELSE IF IsSet(pol.weeklyLimit)
                /\ Exceeds(Projected(st.weeklySpent, amountUsdc), pol.weeklyLimit[1])
            THEN Denied("weekly")
        ELSE IF IsSet(pol.monthlyLimit)
                /\ Exceeds(Projected(st.monthlySpent, amountUsdc), pol.monthlyLimit[1])
            THEN Denied("monthly")
        ELSE IF IsSet(pol.maxTransactionsPerHour)
                /\ VelocityReached(recentCount, pol.maxTransactionsPerHour[1])
            THEN Denied("velocity")
        ELSE IF IsSet(pol.perRecipientDailyLimit)
                /\ Exceeds(Projected(recipientSpent, amountUsdc),
                           pol.perRecipientDailyLimit[1])
            THEN Denied("per-recipient")
        ELSE Allowed

\* A whitelist consulted before the blacklist.
checkListsWhitelistFirst(pol, recipient) ==
    LET normalizedRecipient == toLowerCase(recipient)
    IN  IF Len(pol.approvedRecipients) > 0
           /\ InList(pol.approvedRecipients, normalizedRecipient)
            THEN Allowed
        ELSE IF Len(pol.approvedRecipients) > 0
            THEN Denied("whitelist")
        ELSE IF Len(pol.blockedRecipients) > 0
                /\ InList(pol.blockedRecipients, normalizedRecipient)
            THEN Denied("blocked")
        ELSE Allowed

\* The last two checks of checkPayment: the blacklist, then the whitelist.
checkLists(pol, recipient) ==
    LET normalizedRecipient == toLowerCase(recipient)
    IN  IF Len(pol.blockedRecipients) > 0
           /\ InList(pol.blockedRecipients, normalizedRecipient)
            THEN Denied("blocked")
        ELSE IF Len(pol.approvedRecipients) > 0
                /\ ~InList(pol.approvedRecipients, normalizedRecipient)
            THEN Denied("whitelist")
        ELSE Allowed

\* The recipient lists consulted before the amount and the totals.
checkPaymentListsFirst(pol, st, t, amountUsdc, recipient) ==
    IF ~checkLists(pol, recipient).allowed
    THEN checkLists(pol, recipient)
    ELSE checkLimits(pol, st, t, amountUsdc, recipient)

checkPayment(pol, st, t, amountUsdc, recipient) ==
    IF ~checkLimits(pol, st, t, amountUsdc, recipient).allowed
    THEN checkLimits(pol, st, t, amountUsdc, recipient)
    ELSE checkLists(pol, recipient)

\* A checkPayment that first rolls the expired buckets over in this.state.
checkPaymentRollsOver(st, t, offset) == ResetPeriods(st, getDateKeys(t, offset))

\* this.state after checkPayment: the method assigns no field of it.
checkPaymentEffect(st, t, offset) == st

----------------------------------------------------------------------------
(* PolicyEnforcer.recordPayment *)

\* A recordPayment that records only what the policy in force allows.
recordPaymentGated(st, t, offset, amountUsdc, recipient) ==
    LET normalizedRecipient == toLowerCase(recipient)
        rolled == ResetPeriods(st, getDateKeys(t, offset))
        entry  == [ timestamp |-> t, amount |-> amountUsdc,
                    recipient |-> normalizedRecipient ]
    IN  IF ~checkPayment(policy, st, t, amountUsdc, recipient).allowed
        THEN st
        ELSE [ rolled EXCEPT
                 !.dailySpent   = @ + amountUsdc,
                 !.weeklySpent  = @ + amountUsdc,
                 !.monthlySpent = @ + amountUsdc,
                 !.transactions = @ + 1,
                 !.perRecipient = MapPut(@, normalizedRecipient,
                                         MapGet(@, normalizedRecipient) + amountUsdc),
                 !.recentTransactions = WithinHour(Append(@, entry), t) ]

recordPayment(st, t, offset, amountUsdc, recipient) ==
    LET normalizedRecipient == toLowerCase(recipient)
        rolled == ResetPeriods(st, getDateKeys(t, offset))
        entry  == [ timestamp |-> t, amount |-> amountUsdc,
                    recipient |-> normalizedRecipient ]
    IN  [ rolled EXCEPT
            !.dailySpent   = @ + amountUsdc,
            !.weeklySpent  = @ + amountUsdc,
            !.monthlySpent = @ + amountUsdc,
            !.transactions = @ + 1,
            !.perRecipient = MapPut(@, normalizedRecipient,
                                    MapGet(@, normalizedRecipient) + amountUsdc),
            !.recentTransactions = WithinHour(Append(@, entry), t) ]

----------------------------------------------------------------------------
(* PolicyEnforcer.getStatus *)

Max0(x) == IF x > 0 THEN x ELSE 0

Window(spent, limit) ==
    [ spent |-> spent, limit |-> limit, remaining |-> Max0(limit - spent) ]

getStatus(pol, st, t) ==
    LET recentCount == Len(WithinHour(st.recentTransactions, t))
    IN  [ daily    |-> Window(st.dailySpent, pol.dailyLimit),
          transactions |-> st.transactions,
          weekly   |-> IF IsSet(pol.weeklyLimit)
                       THEN <<Window(st.weeklySpent, pol.weeklyLimit[1])>> ELSE <<>>,
          monthly  |-> IF IsSet(pol.monthlyLimit)
                       THEN <<Window(st.monthlySpent, pol.monthlyLimit[1])>> ELSE <<>>,
          velocity |-> IF IsSet(pol.maxTransactionsPerHour)
                       THEN << [ count |-> recentCount,
                                 limit |-> pol.maxTransactionsPerHour[1],
                                 remaining |-> Max0(pol.maxTransactionsPerHour[1] - recentCount) ] >>
                       ELSE <<>>,
          policy   |-> pol ]

\* A getStatus that first rolls the expired buckets over in this.state.
getStatusRollsOver(st, t, offset) == ResetPeriods(st, getDateKeys(t, offset))

\* this.state after getStatus: the method assigns no field of it.
getStatusEffect(st, t, offset) == st

----------------------------------------------------------------------------
(* PolicyEnforcer.requiresApproval and freeze *)

\* An approval rule that lets the threshold itself through.
requiresApprovalAboveOnly(pol, amountUsdc) ==
    IF ~IsSet(pol.autoApproveUnder) THEN TRUE
    ELSE amountUsdc > pol.autoApproveUnder[1]

requiresApproval(pol, amountUsdc) ==
    IF ~IsSet(pol.autoApproveUnder) THEN TRUE
    ELSE amountUsdc >= pol.autoApproveUnder[1]

freeze(pol) == [ pol EXCEPT !.maxPerTransaction = 0, !.dailyLimit = 0 ]

----------------------------------------------------------------------------
(* The policies and the instants the model is run on *)

\* Every limit set, the two lists overlapping in an address that differs in case.
FullPolicy ==
    [ maxPerTransaction      |-> 1,
      dailyLimit             |-> 2,
      weeklyLimit            |-> <<3>>,
      monthlyLimit           |-> <<3>>,
      maxTransactionsPerHour |-> <<2>>,
      perRecipientDailyLimit |-> <<1>>,
      approvedRecipients     |-> << <<"A">>, <<"b">> >>,
      blockedRecipients      |-> << <<"a">> >>,
      autoApproveUnder       |-> <<1>> ]

\* Only the two required limits.
BasicPolicy ==
    [ maxPerTransaction      |-> 1,
      dailyLimit             |-> 2,
      weeklyLimit            |-> <<>>,
      monthlyLimit           |-> <<>>,
      maxTransactionsPerHour |-> <<>>,
      perRecipientDailyLimit |-> <<>>,
      approvedRecipients     |-> <<>>,
      blockedRecipients      |-> <<>>,
      autoApproveUnder       |-> <<>> ]

\* DEFAULT_POLICY, in tenths of a dollar.
DefaultPolicy ==
    [ BasicPolicy EXCEPT !.maxPerTransaction = 10,
                         !.dailyLimit = 100,
                         !.maxTransactionsPerHour = <<60>>,
                         !.autoApproveUnder = <<1>> ]

\* A process with one PolicyEnforcer, built on a policy object of its own:
\* the exported DEFAULT_POLICY is another object.
Alone == [ h \in { "DEFAULT_POLICY" } |-> << DefaultPolicy >> ]

\* new ServiceDiscovery(): cache null, cacheTime 0.
NoDiscovery == [ cache |-> <<>>, cacheTime |-> 0 ]

\* Every limit set, no lists.
LimitsPolicy == [ FullPolicy EXCEPT !.approvedRecipients = <<>>,
                                    !.blockedRecipients = <<>> ]

\* The two required limits and a whitelist written in upper case.
WhitelistPolicy == [ BasicPolicy EXCEPT !.approvedRecipients = << <<"A">> >> ]

Policies == { FullPolicy, LimitsPolicy, WhitelistPolicy }

\* Hosts on UTC, on UTC-5 and on UTC+10.
TzOffsets == { 0 - 300, 0, 600 }

\* Sunday 2024-01-28 22:00Z
T0 == 27 * MinutesPerDay + 22 * 60

\* 22:00 and 22:30 on the Sunday, and 00:10 on Monday 01-29 (a new day and a
\* new week).
Instants == { T0, T0 + 30, T0 + 130 }

\* The same, and 23:00 on the Sunday (one hour after T0 to the minute), 00:10
\* on Tuesday 01-30 (a new day only) and 00:10 on Thursday 02-01 (a new day and
\* a new month).
CalendarInstants ==
    Instants \cup { T0 + 60, T0 + 130 + MinutesPerDay, T0 + 130 + 3 * MinutesPerDay }

----------------------------------------------------------------------------
(* The state machine of one PolicyEnforcer and its spending file *)

NoCall == [ op |-> "none" ]

CallIds == 1..MaxCalls

\* A fetch that has not been called yet, with the initial values of its locals.
IdleCall ==
    [ pc                |-> "idle",
      skipPolicyCheck   |-> FALSE,
      expectedAmount    |-> 0,
      expectedAmountRaw |-> 0,
      expectedRecipient |-> <<"unknown">>,
      checked           |-> <<>>,
      demanded          |-> <<>> ]

Init ==
    /\ now = T0
    /\ tz = 0
    /\ peers = Alone
    /\ discovery = NoDiscovery
    /\ policy \in Policies
    /\ file = NoFile
    /\ state = loadState(NoFile, T0, tz)
    /\ nRecords = 0
    /\ last = NoCall
    /\ seen = <<>>
    /\ calls = [ c \in CallIds |-> IdleCall ]
    /\ receipts = <<>>
    /\ receiptsFile = NoFile

\* The clock moves on between two calls.
Advance ==
    /\ \E t \in Instants : t > now /\ now' = t
    /\ last' = NoCall
    /\ UNCHANGED <<tz, peers, discovery, policy, state, file, nRecords, seen, clientVars>>

CheckPayment(a, r) ==
    /\ last' = [ op |-> "check", at |-> now, amount |-> a, recipient |-> r,
                 result |-> checkPayment(policy, state, now, a, r),
                 found |-> [ state |-> state, policy |-> policy, file |-> file ] ]
    /\ state' = checkPaymentEffect(state, now, tz)
    /\ UNCHANGED <<now, tz, peers, discovery, policy, file, nRecords, seen, clientVars>>

RecordPayment(a, r) ==
    /\ nRecords < MaxRecords
    /\ nRecords' = nRecords + 1
    /\ state' = recordPayment(state, now, tz, a, r)
    /\ file' = saveState(state')
    /\ last' = [ op |-> "record", at |-> now, amount |-> a, recipient |-> r,
                 found |-> [ state |-> state, policy |-> policy, file |-> file ] ]
    /\ seen' = <<>>
    /\ UNCHANGED <<now, tz, peers, discovery, policy, clientVars>>

GetStatus ==
    /\ last' = [ op |-> "status", at |-> now, result |-> getStatus(policy, state, now) ]
    /\ state' = getStatusEffect(state, now, tz)
    /\ UNCHANGED <<now, tz, peers, discovery, policy, file, nRecords, seen, clientVars>>

Freeze ==
    /\ policy' = freeze(policy)
    /\ file' = saveState(state)
    /\ last' = [ op |-> "freeze", at |-> now ]
    /\ UNCHANGED <<now, tz, peers, discovery, state, nRecords, seen, clientVars>>

\* The process restarts: a new PolicyEnforcer on the same path and policy.
Restart ==
    /\ state' = loadState(file, now, tz)
    /\ last' = [ op |-> "load", at |-> now ]
    /\ seen' = <<>>
    /\ UNCHANGED <<now, tz, peers, discovery, policy, file, nRecords, clientVars>>

Next ==
    \/ Advance
    \/ \E a \in Amounts, r \in Recipients : CheckPayment(a, r)
    \/ \E a \in Amounts, r \in Recipients : RecordPayment(a, r)
    \/ GetStatus
    \/ Restart

Spec == Init /\ [][Next]_vars

----------------------------------------------------------------------------
(* Single-threaded use that records only what checkPayment just allowed,    *)
(* with the policy left alone.                                              *)

\* The payment the caller had allowed by its last call and has not recorded.
HoldsAllowed == last.op = "check" /\ last.result.allowed

\* The clock moves on between checkPayment and the recordPayment that follows.
AdvanceHolding ==
    /\ \E t \in CalendarInstants : t > now /\ now' = t
    /\ UNCHANGED <<tz, peers, discovery, policy, state, file, nRecords, last, seen, clientVars>>

RecordChecked ==
    /\ HoldsAllowed
    /\ RecordPayment(last.amount, last.recipient)

NextChecked ==
    \/ AdvanceHolding
    \/ \E a \in Amounts, r \in Recipients : CheckPayment(a, r)
    \/ RecordChecked
    \/ GetStatus
    \/ Restart

InitChecked ==
    /\ now = T0
    /\ tz \in TzOffsets
    /\ peers = Alone
    /\ discovery = NoDiscovery
    /\ policy \in Policies
    /\ file = NoFile
    /\ state = loadState(NoFile, T0, tz)
    /\ nRecords = 0
    /\ last = NoCall
    /\ seen = <<>>
    /\ calls = [ c \in CallIds |-> IdleCall ]
    /\ receipts = <<>>
    /\ receiptsFile = NoFile

SpecChecked == InitChecked /\ [][NextChecked]_vars

----------------------------------------------------------------------------
(* Any use of one PolicyEnforcer: freeze() included, and amounts of either  *)
(* sign, since amountUsdc is a number and nothing narrows it.                *)

AnyAmounts == (0 - 1)..MaxAmount

NextOps ==
    \/ Advance
    \/ \E a \in AnyAmounts, r \in Recipients : CheckPayment(a, r)
    \/ \E a \in AnyAmounts, r \in Recipients : RecordPayment(a, r)
    \/ GetStatus
    \/ Freeze
    \/ Restart

SpecOps == Init /\ [][NextOps]_vars

----------------------------------------------------------------------------
(* Repeated getStatus() calls on one PolicyEnforcer, with anything between   *)
(* them: the first result since the last recordPayment is kept in seen.      *)

\* getStatus(), its result noted if it is the first since the last recordPayment.
GetStatusNoted ==
    /\ last' = [ op |-> "status", at |-> now, result |-> getStatus(policy, state, now) ]
    /\ state' = getStatusEffect(state, now, tz)
    /\ seen' = IF seen = <<>>
               THEN << [ at |-> now, result |-> getStatus(policy, state, now) ] >>
               ELSE seen
    /\ UNCHANGED <<now, tz, peers, discovery, policy, file, nRecords, clientVars>>

\* One instance, under the policy that sets every limit.
InitStatus ==
    /\ now = T0
    /\ tz = 0
    /\ peers = Alone
    /\ discovery = NoDiscovery
    /\ policy = LimitsPolicy
    /\ file = NoFile
    /\ state = loadState(NoFile, T0, tz)
    /\ nRecords = 0
    /\ last = NoCall
    /\ seen = <<>>
    /\ calls = [ c \in CallIds |-> IdleCall ]
    /\ receipts = <<>>
    /\ receiptsFile = NoFile

NextStatus ==
    \/ Advance
    \/ \E a \in Amounts, r \in Recipients : CheckPayment(a, r)
    \/ \E a \in Amounts, r \in Recipients : RecordPayment(a, r)
    \/ GetStatusNoted
    \/ Freeze

SpecStatus == InitStatus /\ [][NextStatus]_vars

----------------------------------------------------------------------------
(* checkPayment on a new PolicyEnforcer with no spending file, under any     *)
(* policy: the constructor takes whatever PaymentPolicy it is given.         *)

Limits == 0..MaxAmount

OptionalLimits == { <<>> } \cup { <<v>> : v \in Limits }

FreshPolicies ==
    [ maxPerTransaction      : Limits,
      dailyLimit             : Limits,
      weeklyLimit            : OptionalLimits,
      monthlyLimit           : OptionalLimits,
      maxTransactionsPerHour : { <<>>, <<0>>, <<1>> },
      perRecipientDailyLimit : OptionalLimits,
      approvedRecipients     : { <<>>, << <<"A">> >> },
      blockedRecipients      : { <<>>, << <<"a">> >>, << <<"b">> >> },
      autoApproveUnder       : { <<>> } ]

InitFresh ==
    /\ now = T0
    /\ tz = 0
    /\ peers = Alone
    /\ discovery = NoDiscovery
    /\ policy \in FreshPolicies
    /\ file = NoFile
    /\ state = loadState(NoFile, T0, tz)
    /\ nRecords = 0
    /\ last = NoCall
    /\ seen = <<>>
    /\ calls = [ c \in CallIds |-> IdleCall ]
    /\ receipts = <<>>
    /\ receiptsFile = NoFile

NextFresh == \E a \in Amounts, r \in Recipients : CheckPayment(a, r)

SpecFresh == InitFresh /\ [][NextFresh]_vars

----------------------------------------------------------------------------
(* AgentPayClient.fetch: one call runs from await to await; between two      *)
(* awaits of one call, the steps of other calls on the same client may run.  *)

UsdcDecimals == 6

\* viem formatUnits, then parseFloat: exact on whole multiples of 10^decimals,
\* which are the only raw amounts the probes below carry.
formatUnits(raw, decimals) == raw \div (10 ^ decimals)

\* What the probe request can come back with: a rejected fetch (null), a
\* status other than 402, a 402 with no payment header, a 402 whose header
\* does not parse, and a 402 whose header names an amount and a recipient.
ProbeOutcomes ==
    { [ kind |-> k, amountRaw |-> 0, payTo |-> <<"unknown">> ] :
        k \in { "error", "other", "402-bare", "402-garbled" } }
    \cup
    { [ kind |-> "402", amountRaw |-> a * (10 ^ UsdcDecimals), payTo |-> r ] :
        a \in Amounts, r \in Recipients }

\* What the payment-enabled request can come back with: a rejection, a
\* response with no payment-response header, one whose header does not
\* decode, and a settled payment.
PaymentOutcomes == { "throws", "unpaid", "undecodable", "settled" }

\* ReceiptStore.loadReceipts: the file's list, the empty list when there is no
\* file or it does not parse.
loadReceipts(f) == IF f.kind # "json" THEN <<>> ELSE f.data

\* ReceiptStore.saveReceipts
saveReceipts(list) == [ kind |-> "json", data |-> list ]

\* ReceiptStore.recordBlocked: the receipt it pushes (ids are fresh).
recordBlocked(list, url, amount, amountRaw, recipient, reason) ==
    Append(list, [ id          |-> Len(list) + 1,
                   url         |-> url,
                   amount      |-> amount,
                   amountRaw   |-> amountRaw,
                   recipient   |-> recipient,
                   status      |-> "blocked",
                   blockReason |-> <<reason>> ])

\* ReceiptStore.createReceipt: the receipt it pushes (ids are fresh); the
\* store itself always gives the status pending.
createReceipt(list, url, amount, amountRaw, recipient, status) ==
    Append(list, [ id          |-> Len(list) + 1,
                   url         |-> url,
                   amount      |-> amount,
                   amountRaw   |-> amountRaw,
                   recipient   |-> recipient,
                   status      |-> status,
                   blockReason |-> <<>> ])

\* { ...receipt, ...update }: the update's fields replace the receipt's.
Merged(receipt, update) ==
    [ f \in DOMAIN receipt |-> IF f \in DOMAIN update THEN update[f] ELSE receipt[f] ]

\* findIndex(r => r.id === id), 0 for -1
FindIndex(list, id) ==
    IF \E i \in DOMAIN list : list[i].id = id
    THEN CHOOSE i \in DOMAIN list :
            list[i].id = id /\ \A j \in DOMAIN list : list[j].id = id => i <= j
    ELSE 0

\* An update that, finding no receipt with the id, falls on the last receipt.
updateReceiptFallsOnLast(list, id, update) ==
    IF list = <<>> THEN list
    ELSE IF FindIndex(list, id) = 0
    THEN [ list EXCEPT ![Len(list)] = Merged(@, update) ]
    ELSE [ list EXCEPT ![FindIndex(list, id)] = Merged(@, update) ]

\* ReceiptStore.updateReceipt: the list after the call (unchanged when no
\* receipt has the id and null is returned).
updateReceipt(list, id, update) ==
    IF FindIndex(list, id) = 0
    THEN list
    ELSE [ list EXCEPT ![FindIndex(list, id)] = Merged(@, update) ]

\* What updateReceipt returns: <<>> for null, else the merged receipt.
updateReceiptReturns(list, id, update) ==
    IF FindIndex(list, id) = 0
    THEN <<>>
    ELSE << Merged(list[FindIndex(list, id)], update) >>

\* What the server asks for the resource, where the probe tells: the amount
\* in USDC and the recipient of a 402 with a payment header that parses. It
\* is noted with the call and read by none of fetch's steps.
Demand(probe) ==
    IF probe.kind = "402"
    THEN << [ amount |-> formatUnits(probe.amountRaw, UsdcDecimals),
              payTo  |-> probe.payTo ] >>
    ELSE <<>>

\* Whether fetch runs its policy check on this probe.
ChecksPolicy(call, probe) == probe.kind = "402" /\ ~call.skipPolicyCheck

\* Where fetch goes after a denied check: the catch around the check rethrows
\* only a PaymentBlockedError, so a throw of recordBlocked's write or of the
\* onBlocked callback is logged and the call goes on to the paid request.
AfterDenied(storeThrows, onBlockedThrows) ==
    IF storeThrows \/ onBlockedThrows THEN "paying" ELSE "blocked"

\* Where fetch goes when no check ran or the check allowed the payment.
AfterUnchecked == "paying"

FetchStart(c, skip) ==
    /\ calls[c].pc = "idle"
    /\ calls' = [ calls EXCEPT ![c].pc = "probe", ![c].skipPolicyCheck = skip ]
    /\ UNCHANGED <<enforcerVars, receipts, receiptsFile>>

\* The probe's await resolves; fetch runs up to its call of fetchWithPayment.
ProbeReturns(c, probe, storeThrows, onBlockedThrows) ==
    LET call   == calls[c]
        amount == formatUnits(probe.amountRaw, UsdcDecimals)
        result == checkPayment(policy, state, now, amount, probe.payTo)
        parsed == [ call EXCEPT !.expectedAmountRaw = probe.amountRaw,
                                !.expectedAmount    = amount,
                                !.expectedRecipient = probe.payTo,
                                !.checked           = <<result>>,
                                !.demanded          = Demand(probe) ]
    IN  /\ call.pc = "probe"
        /\ IF ~ChecksPolicy(call, probe)
           THEN /\ calls' = [ calls EXCEPT ![c].pc = AfterUnchecked,
                                           ![c].demanded = Demand(probe) ]
                /\ UNCHANGED <<receipts, receiptsFile>>
           ELSE IF result.allowed
           THEN /\ calls' = [ calls EXCEPT ![c] = [ parsed EXCEPT !.pc = "paying" ] ]
                /\ UNCHANGED <<receipts, receiptsFile>>
           ELSE /\ calls' = [ calls EXCEPT ![c] =
                                [ parsed EXCEPT !.pc = AfterDenied(storeThrows, onBlockedThrows) ] ]
                /\ receipts' = recordBlocked(receipts, c, amount, probe.amountRaw,
                                             probe.payTo, result.reason)
                /\ receiptsFile' = IF storeThrows THEN receiptsFile
                                   ELSE saveReceipts(receipts')
        /\ state' = IF ChecksPolicy(call, probe)
                    THEN checkPaymentEffect(state, now, tz) ELSE state
        /\ UNCHANGED <<now, tz, peers, discovery, policy, file, nRecords, last, seen>>

\* The paid request's await resolves; fetch records a settled payment.
PaymentReturns(c, outcome) ==
    LET call    == calls[c]
        created == createReceipt(receipts, c, call.expectedAmount,
                                 call.expectedAmountRaw,
                                 call.expectedRecipient, "pending")
        \* const receipt = this.receipts.createReceipt(...): the object that
        \* createReceipt pushed; updateReceipt stores a new object in its
        \* place and does not write to this one.
        receipt == created[Len(created)]
    IN  /\ call.pc = "paying"
        /\ IF outcome = "settled"
           THEN /\ state' = recordPayment(state, now, tz, call.expectedAmount,
                                          call.expectedRecipient)
                /\ file' = saveState(state')
                /\ nRecords' = nRecords + 1
                /\ receipts' = updateReceipt(created, receipt.id,
                                             [ status |-> "success" ])
                /\ receiptsFile' = saveReceipts(receipts')
           ELSE UNCHANGED <<state, file, nRecords, receipts, receiptsFile>>
        /\ calls' = [ calls EXCEPT ![c].pc = IF outcome = "throws" THEN "failed" ELSE "done" ]
        /\ last' = [ op |-> "paid", at |-> now, call |-> c, outcome |-> outcome,
                     found |-> [ state |-> state, receipts |-> receipts ],
                     \* this.config.onPayment?.(receipt)
                     onPayment |-> IF outcome = "settled" THEN << receipt >>
                                   ELSE <<>> ]
        /\ UNCHANGED <<now, tz, peers, discovery, policy, seen>>

\* The ledger a client starts on: no spending file, or the file of an earlier
\* run that recorded one payment of 1 to <<"b">> at T0.
EarlierFile == saveState(recordPayment(defaultState(T0, 0), T0, 0, 1, <<"b">>))

InitFetch ==
    /\ now = T0
    /\ tz = 0
    /\ peers = Alone
    /\ discovery = NoDiscovery
    /\ policy \in { LimitsPolicy, FullPolicy }
    /\ file \in { NoFile, EarlierFile }
    /\ state = loadState(file, now, tz)
    /\ nRecords = 0
    /\ last = NoCall
    /\ seen = <<>>
    /\ calls = [ c \in CallIds |-> IdleCall ]
    /\ receipts = <<>>
    /\ receiptsFile = NoFile

NextFetch ==
    \/ \E c \in CallIds, skip \in BOOLEAN : FetchStart(c, skip)
    \/ \E c \in CallIds, probe \in ProbeOutcomes, storeThrows \in BOOLEAN,
          onBlockedThrows \in BOOLEAN :
            ProbeReturns(c, probe, storeThrows, onBlockedThrows)
    \/ \E c \in CallIds, outcome \in PaymentOutcomes : PaymentReturns(c, outcome)

SpecFetch == InitFetch /\ [][NextFetch]_vars

----------------------------------------------------------------------------
(* ReceiptStore: any sequence of its operations on one store                 *)

Statuses == { "success", "failed", "pending", "blocked" }

\* The Partial<PaymentReceipt> values updateReceipt is called with: a status,
\* a block reason, or both; NextReceipts adds the updates that carry an id.
Updates ==
    { [ status |-> st ] : st \in Statuses }
    \cup { [ blockReason |-> << "late" >> ] }
    \cup { [ status |-> st, blockReason |-> << "late" >> ] : st \in Statuses }

\* Array.prototype.slice(start): a negative start counts from the end.
slice(list, start) ==
    LET k == IF start < 0
             THEN (IF Len(list) + start > 0 THEN Len(list) + start ELSE 0)
             ELSE (IF start < Len(list) THEN start ELSE Len(list))
    IN  SubSeq(list, k + 1, Len(list))

\* Array.prototype.reverse()
reverse(list) == [ i \in 1..Len(list) |-> list[Len(list) - i + 1] ]

\* ReceiptStore.getRecent: this.receipts.slice(-limit).reverse()
getRecent(list, limit) == reverse(slice(list, 0 - limit))

\* ReceiptStore.getAll
getAll(list) == list

\* AgentPayClient.getHistory(limit?): an absent limit is <<>>; 0 is falsy.
getHistory(list, limit) ==
    IF limit # <<>> /\ limit[1] # 0 THEN getRecent(list, limit[1]) ELSE getAll(list)

GetRecent(limit) ==
    /\ last' = [ op |-> "recent", limit |-> limit, found |-> receipts,
                 result |-> getRecent(receipts, limit) ]
    /\ UNCHANGED <<now, tz, peers, discovery, policy, state, file, nRecords, seen, clientVars>>

GetHistory(limit) ==
    /\ last' = [ op |-> "history", limit |-> limit, found |-> receipts,
                 result |-> getHistory(receipts, limit) ]
    /\ UNCHANGED <<now, tz, peers, discovery, policy, state, file, nRecords, seen, clientVars>>

CreateReceipt(url, r) ==
    /\ Len(receipts) < MaxReceipts
    /\ receipts' = createReceipt(receipts, url, 1, 1000000, r, "pending")
    /\ receiptsFile' = saveReceipts(receipts')
    /\ last' = [ op |-> "create", found |-> receipts, foundFile |-> receiptsFile ]
    /\ UNCHANGED <<now, tz, peers, discovery, policy, state, file, nRecords, seen, calls>>

RecordBlocked(url, r, reason) ==
    /\ Len(receipts) < MaxReceipts
    /\ receipts' = recordBlocked(receipts, url, 1, 1000000, r, reason)
    /\ receiptsFile' = saveReceipts(receipts')
    /\ last' = [ op |-> "blocked", reason |-> reason, found |-> receipts ]
    /\ UNCHANGED <<now, tz, peers, discovery, policy, state, file, nRecords, seen, calls>>

UpdateReceipt(id, update) ==
    /\ receipts' = updateReceipt(receipts, id, update)
    /\ receiptsFile' = IF FindIndex(receipts, id) = 0 THEN receiptsFile
                       ELSE saveReceipts(receipts')
    /\ last' = [ op |-> "update", id |-> id, update |-> update, found |-> receipts,
                 foundFile |-> receiptsFile,
                 result |-> updateReceiptReturns(receipts, id, update) ]
    /\ UNCHANGED <<now, tz, peers, discovery, policy, state, file, nRecords, seen, calls>>

\* A store with no receipts file, beside an enforcer it never calls.
InitReceipts ==
    /\ now = T0
    /\ tz = 0
    /\ peers = Alone
    /\ discovery = NoDiscovery
    /\ policy = BasicPolicy
    /\ file = NoFile
    /\ state = loadState(NoFile, T0, tz)
    /\ nRecords = 0
    /\ last = NoCall
    /\ seen = <<>>
    /\ calls = [ c \in CallIds |-> IdleCall ]
    /\ receipts = <<>>
    /\ receiptsFile = NoFile

NextReceipts ==
    \/ \E url \in CallIds : CreateReceipt(url, <<"b">>)
    \/ \E url \in CallIds : RecordBlocked(url, <<"b">>, "daily")
    \/ \E id \in 1..(MaxReceipts + 1), update \in Updates : UpdateReceipt(id, update)
    \/ \E id \in 1..(MaxReceipts + 1), i \in DOMAIN receipts :
          UpdateReceipt(id, [ id |-> receipts[i].id ])
    \/ \E limit \in 0..(MaxReceipts + 1) : GetRecent(limit)
    \/ \E limit \in 0..(MaxReceipts + 1) : GetHistory(<<limit>>)
    \/ GetHistory(<<>>)

SpecReceipts == InitReceipts /\ [][NextReceipts]_vars

\* The store used as AgentPayClient uses it: receipts are created and blocked
\* payments recorded, and updates carry a status, a block reason or both.
NextUpdates ==
    \/ CreateReceipt(1, <<"b">>)
    \/ RecordBlocked(1, <<"b">>, "daily")
    \/ \E id \in 1..(MaxReceipts + 1), update \in Updates : UpdateReceipt(id, update)

SpecUpdates == InitReceipts /\ [][NextUpdates]_vars

----------------------------------------------------------------------------
(* One PolicyEnforcer and its spending file on hosts in several timezones,  *)
(* with the instants of its recordPayment calls noted in seen.              *)

\* The instants of the calendar, and 06:00Z on Monday 01-29 and on Thursday
\* 02-01: on a host on UTC-5 the local day, week and month begin at 05:00Z,
\* between 00:10Z and 06:00Z of the same UTC date.
LedgerInstants ==
    CalendarInstants \cup { T0 + 8 * 60, T0 + 8 * 60 + 3 * MinutesPerDay }

AdvanceLedger ==
    /\ \E t \in LedgerInstants : t > now /\ now' = t
    /\ UNCHANGED <<tz, peers, discovery, policy, state, file, nRecords, last, seen, clientVars>>

RecordPaymentNoted(a, r) ==
    /\ nRecords < MaxRecords
    /\ nRecords' = nRecords + 1
    /\ state' = recordPayment(state, now, tz, a, r)
    /\ file' = saveState(state')
    /\ last' = [ op |-> "record", at |-> now, amount |-> a, recipient |-> r,
                 found |-> [ state |-> state, policy |-> policy, file |-> file ] ]
    /\ seen' = Append(seen, [ at |-> now ])
    /\ UNCHANGED <<now, tz, peers, discovery, policy, clientVars>>

RestartNoted ==
    /\ state' = loadState(file, now, tz)
    /\ last' = [ op |-> "load", at |-> now ]
    /\ UNCHANGED <<now, tz, peers, discovery, policy, file, nRecords, seen, clientVars>>

InitLedger ==
    /\ now = T0
    /\ tz \in TzOffsets
    /\ peers = Alone
    /\ discovery = NoDiscovery
    /\ policy = LimitsPolicy
    /\ file = NoFile
    /\ state = loadState(NoFile, T0, tz)
    /\ nRecords = 0
    /\ last = NoCall
    /\ seen = <<>>
    /\ calls = [ c \in CallIds |-> IdleCall ]
    /\ receipts = <<>>
    /\ receiptsFile = NoFile

NextLedger ==
    \/ AdvanceLedger
    \/ \E a \in Amounts, r \in { <<"A">>, <<"b">> } : RecordPaymentNoted(a, r)
    \/ RestartNoted

SpecLedger == InitLedger /\ [][NextLedger]_vars

----------------------------------------------------------------------------
(* PolicyEnforcer.requiresApproval, on policies with and without an         *)
(* autoApproveUnder threshold.                                              *)

ApprovalPolicies ==
    { [ BasicPolicy EXCEPT !.autoApproveUnder = o ] : o \in OptionalLimits }

RequiresApproval(a) ==
    /\ last' = [ op |-> "approval", at |-> now, amount |-> a,
                 result |-> requiresApproval(policy, a),
                 found |-> [ state |-> state, policy |-> policy, file |-> file ] ]
    /\ UNCHANGED <<now, tz, peers, discovery, policy, state, file, nRecords, seen, clientVars>>

InitApproval ==
    /\ now = T0
    /\ tz = 0
    /\ peers = Alone
    /\ discovery = NoDiscovery
    /\ policy \in ApprovalPolicies
    /\ file = NoFile
    /\ state = loadState(NoFile, T0, tz)
    /\ nRecords = 0
    /\ last = NoCall
    /\ seen = <<>>
    /\ calls = [ c \in CallIds |-> IdleCall ]
    /\ receipts = <<>>
    /\ receiptsFile = NoFile

NextApproval ==
    \/ Advance
    \/ \E a \in Amounts : RecordPayment(a, <<"b">>)
    \/ \E a \in AnyAmounts : RequiresApproval(a)
    \/ Freeze

SpecApproval == InitApproval /\ [][NextApproval]_vars

----------------------------------------------------------------------------
(* A process with two PolicyEnforcer instances. The constructor stores the  *)
(* reference it is given (this.policy = policy, DEFAULT_POLICY when none     *)
(* is given), so instances built on one object, and the exported            *)
(* DEFAULT_POLICY, can be one and the same object as this.policy.           *)

\* The value of the policy object a holder refers to.
PolicyOf(h) == IF peers[h] = <<>> THEN policy ELSE peers[h][1]

\* The first instance is built with no policy argument or with a policy
\* object of the caller's; the second one with the same argument, or with an
\* object of its own.
InitFreeze ==
    /\ now = T0
    /\ tz = 0
    /\ \E byDefault \in BOOLEAN :
          /\ policy = (IF byDefault THEN DefaultPolicy ELSE LimitsPolicy)
          /\ \E second \in { <<>>, << LimitsPolicy >>, << DefaultPolicy >> } :
                peers = [ h \in { "DEFAULT_POLICY", "second" } |->
                            IF h = "second" THEN second
                            ELSE IF byDefault THEN <<>> ELSE << DefaultPolicy >> ]
    /\ discovery = NoDiscovery
    /\ file = NoFile
    /\ state = loadState(NoFile, T0, tz)
    /\ nRecords = 0
    /\ last = NoCall
    /\ seen = <<>>
    /\ calls = [ c \in CallIds |-> IdleCall ]
    /\ receipts = <<>>
    /\ receiptsFile = NoFile

NextFreeze ==
    \/ Advance
    \/ \E a \in Amounts, r \in Recipients : CheckPayment(a, r)
    \/ \E a \in Amounts : RecordPayment(a, <<"b">>)
    \/ GetStatus
    \/ Freeze

SpecFreeze == InitFreeze /\ [][NextFreeze]_vars

----------------------------------------------------------------------------
(* Files that get damaged between two runs of the process: the spending     *)
(* file and the receipts file are left with content that JSON.parse rejects. *)

DamageSpendingFile ==
    /\ file.kind # "corrupt"
    /\ file' = Corrupt
    /\ last' = NoCall
    /\ UNCHANGED <<now, tz, peers, discovery, policy, state, nRecords, seen, clientVars>>

DamageReceiptsFile ==
    /\ receiptsFile.kind # "corrupt"
    /\ receiptsFile' = Corrupt
    /\ last' = NoCall
    /\ UNCHANGED <<now, tz, peers, discovery, policy, state, file, nRecords, seen, calls, receipts>>

\* A new ReceiptStore on the same path.
RestartStore ==
    /\ receipts' = loadReceipts(receiptsFile)
    /\ last' = [ op |-> "loadReceipts" ]
    /\ UNCHANGED <<now, tz, peers, discovery, policy, state, file, nRecords, seen, calls, receiptsFile>>

InitDamage ==
    /\ now = T0
    /\ tz = 0
    /\ peers = Alone
    /\ discovery = NoDiscovery
    /\ policy = LimitsPolicy
    /\ file = NoFile
    /\ state = loadState(NoFile, T0, tz)
    /\ nRecords = 0
    /\ last = NoCall
    /\ seen = <<>>
    /\ calls = [ c \in CallIds |-> IdleCall ]
    /\ receipts = <<>>
    /\ receiptsFile = NoFile

NextDamage ==
    \/ Advance
    \/ \E a \in Amounts, r \in Recipients : RecordPayment(a, r)
    \/ DamageSpendingFile
    \/ Restart
    \/ CreateReceipt(1, <<"b">>)
    \/ DamageReceiptsFile
    \/ RestartStore

SpecDamage == InitDamage /\ [][NextDamage]_vars

\* What writeFileSync can leave on disk when the process stops during it: the
\* file as it was (the write had not begun), the new content in full, or a
\* truncated file holding a proper prefix of the new content, which
\* JSON.parse rejects.
InterruptedWrite(before, after) == { before, Corrupt, after }

\* recordPayment in a process that stops during saveState, followed by the
\* start of a new process on the same path.
RecordPaymentInterrupted(a, r) ==
    /\ nRecords < MaxRecords
    /\ nRecords' = nRecords + 1
    /\ \E written \in InterruptedWrite(file,
                          saveState(recordPayment(state, now, tz, a, r))) :
          /\ file' = written
          /\ state' = loadState(written, now, tz)
    /\ last' = [ op |-> "interrupted", at |-> now, amount |-> a, recipient |-> r,
                 found |-> [ state |-> state, policy |-> policy, file |-> file ] ]
    /\ seen' = <<>>
    /\ UNCHANGED <<now, tz, peers, discovery, policy, clientVars>>

NextCrash ==
    \/ Advance
    \/ \E a \in Amounts, r \in Recipients : RecordPayment(a, r)
    \/ \E a \in Amounts, r \in Recipients : RecordPaymentInterrupted(a, r)
    \/ GetStatus
    \/ Restart

SpecCrash == InitDamage /\ [][NextCrash]_vars

----------------------------------------------------------------------------
(* ReceiptStore.exportCsv. A text is a sequence of symbols: the comma, the   *)
(* double quote and the line break are symbols of their own, and a run of    *)
(* other characters that the model never splits ("id", "pending", "x") is    *)
(* kept as one symbol.                                                       *)

CsvHeaders == << "id", "timestamp", "url", "amount", "currency", "network",
                 "recipient", "txHash", "status", "blockReason" >>

\* r[h]: <<>> when undefined, else << text >>. The receipts of the model carry
\* no timestamp, currency, network or txHash: the first three are the strings
\* createReceipt and its callers set, and txHash is left undefined.
FieldOf(receipt, h) ==
    CASE h = "id"          -> << << ToString(receipt.id) >> >>
      [] h = "timestamp"   -> << << "2024-01-28T22:00:00.000Z" >> >>
      [] h = "url"         -> << receipt.url >>
      [] h = "amount"      -> << << ToString(receipt.amount) >> >>
      [] h = "currency"    -> << << "USDC" >> >>
      [] h = "network"     -> << << "base" >> >>
      [] h = "recipient"   -> << receipt.recipient >>
      [] h = "txHash"      -> <<>>
      [] h = "status"      -> << << receipt.status >> >>
      [] h = "blockReason" -> receipt.blockReason

\* val.includes(',')
Includes(text, c) == \E i \in DOMAIN text : text[i] = c

\* One cell of a row, as the callback of headers.map renders it.
CsvCell(val) ==
    IF val = <<>> THEN <<>>
    ELSE IF Includes(val[1], ",") THEN << "\"" >> \o val[1] \o << "\"" >>
    ELSE val[1]

\* Array.prototype.join(sep) on texts
RECURSIVE join(_, _)
join(texts, sep) ==
    IF texts = <<>> THEN <<>>
    ELSE IF Len(texts) = 1 THEN texts[1]
    ELSE texts[1] \o << sep >> \o join(Tail(texts), sep)

CsvRow(receipt) ==
    join([ i \in DOMAIN CsvHeaders |-> CsvCell(FieldOf(receipt, CsvHeaders[i])) ], ",")

exportCsv(list) ==
    join(<< join([ i \in DOMAIN CsvHeaders |-> << CsvHeaders[i] >> ], ",") >>
           \o [ i \in DOMAIN list |-> CsvRow(list[i]) ],
         "\n")

\* The strings a caller can put in a receipt's url or block reason.

CsvStrings == UNION { [ 1..n -> { "x", ",", "\"", "\n" } ] : n \in 0..MaxFieldLen }

ExportCsv ==
    /\ last' = [ op |-> "csv", found |-> receipts, result |-> exportCsv(receipts) ]
    /\ UNCHANGED <<now, tz, peers, discovery, policy, state, file, nRecords, seen, clientVars>>

NextCsv ==
    \/ \E url \in CsvStrings : CreateReceipt(url, <<"b">>)
    \/ \E reason \in CsvStrings : RecordBlocked(<<"x">>, <<"b">>, reason)
    \/ ExportCsv

SpecCsv == InitReceipts /\ [][NextCsv]_vars

----------------------------------------------------------------------------
(* Service discovery: discoverServices on the default ServiceDiscovery       *)

\* private cacheTTL = 5 * 60 * 1000, in minutes
cacheTTL == 5

\* String.prototype.includes
includes(text, q) ==
    \E i \in 0..(Len(text) - Len(q)) : SubSeq(text, i + 1, i + Len(q)) = q

\* FALLBACK_SERVICES, the texts of its one entry shortened, prices in
\* thousandths of a USDC.
FALLBACK_SERVICES ==
 << [ id          |-> "x402-demo-weather",
      name        |-> << "D", "e", "m", "o" >>,
      description |-> << "d", "a", "t", "a" >>,
      category    |-> << "w", "e", "a", "t", "h", "e", "r" >>,
      networks    |-> << "eip155:8453", "eip155:84532" >>,
      priceRange  |-> [ min |-> 1, max |-> 10 ] ] >>

\* What the registry may list: that entry and two more, any of them left
\* out.
Registries ==
    LET Feeds ==
            [ id          |-> "feeds",
              name        |-> << "F", "e", "e", "d" >>,
              description |-> << "A", "B" >>,
              category    |-> << "d", "a", "t", "a" >>,
              networks    |-> << "eip155:8453" >>,
              priceRange  |-> [ min |-> 0, max |-> 5 ] ]
        Almanac ==
            [ id          |-> "almanac",
              name        |-> << "A", "l", "m" >>,
              description |-> << "d", "e", "w" >>,
              category    |-> << "w", "e", "a", "t", "h", "e", "r" >>,
              networks    |-> << "solana" >>,
              priceRange  |-> [ min |-> 2, max |-> 2 ] ]
    IN  { (IF a THEN FALLBACK_SERVICES ELSE <<>>)
            \o (IF b THEN << Feeds >> ELSE <<>>)
            \o (IF c THEN << Almanac >> ELSE <<>>) : a, b, c \in BOOLEAN }

\* ServiceDiscovery.getAllServices: the services it resolves to and the
\* instance after it. An empty array in the cache is truthy.
getAllServices(d, t, response) ==
    IF d.cache # <<>> /\ t - d.cacheTime < cacheTTL
    THEN [ services |-> d.cache[1], discovery |-> d ]
    ELSE IF response.ok
    THEN LET data == IF response.services = <<>> THEN <<>>
                     ELSE response.services[1]
         IN  [ services  |-> data,
               discovery |-> [ cache |-> << data >>, cacheTime |-> t ] ]
    ELSE [ services |-> FALLBACK_SERVICES, discovery |-> d ]

findByCategory(services, category) ==
    SelectSeq(services, LAMBDA sv : sv.category = category)

findByNetwork(services, network) ==
    SelectSeq(services,
              LAMBDA sv : \E i \in DOMAIN sv.networks : sv.networks[i] = network)

findUnderPrice(services, maxPrice) ==
    SelectSeq(services, LAMBDA sv : sv.priceRange.min <= maxPrice)

search(services, query) ==
    LET q == toLowerCase(query)
    IN  SelectSeq(services,
                  LAMBDA sv : \/ includes(toLowerCase(sv.name), q)
                              \/ includes(toLowerCase(sv.description), q)
                              \/ includes(sv.category, q))

\* discoverServices, on the services getAllServices resolved to. A text
\* option is truthy when it is present and not the empty string; a network is
\* kept as one name.
discoverServices(options, services) ==
    IF options.query # <<>> /\ Len(options.query[1]) > 0
    THEN search(services, options.query[1])
    ELSE IF options.category # <<>> /\ Len(options.category[1]) > 0
    THEN LET byCategory == findByCategory(services, options.category[1])
             byNetwork  == IF options.network # <<>> /\ options.network[1] # ""
                           THEN findByNetwork(byCategory, options.network[1])
                           ELSE byCategory
         IN  IF options.maxPrice # <<>>
             THEN findUnderPrice(byNetwork, options.maxPrice[1])
             ELSE byNetwork
    ELSE IF options.network # <<>> /\ options.network[1] # ""
    THEN findByNetwork(services, options.network[1])
    ELSE IF options.maxPrice # <<>>
    THEN findUnderPrice(services, options.maxPrice[1])
    ELSE services

DiscoverServices(options, response) ==
    LET got == getAllServices(discovery, now, response)
    IN  /\ discovery' = got.discovery
        /\ last' = [ op |-> "discover", at |-> now, options |-> options,
                     services |-> got.services,
                     result |-> discoverServices(options, got.services) ]
        /\ UNCHANGED <<now, tz, peers, policy, state, file, nRecords, seen,
                       clientVars>>

\* To an instant within the cache's lifetime, or to the one at which it has
\* run out.
AdvanceDiscovery ==
    /\ \E t \in { T0 + cacheTTL - 1, T0 + cacheTTL } : t > now /\ now' = t
    /\ UNCHANGED <<tz, peers, discovery, policy, state, file, nRecords, last,
                   seen, clientVars>>

\* The options of a call have each filter absent or given. What
\* fetch(this.registryUrl) and response.json() come to is a failure (fetch
\* rejects, the status is not ok, or the body is not JSON), or the parsed
\* body, whose services field may be missing.
NextDiscovery ==
    \/ AdvanceDiscovery
    \/ \E options \in
            [ category : { <<>>, << << "w", "e", "a", "t", "h", "e", "r" >> >>,
                           << << "d", "a", "t", "a" >> >> },
              network  : { <<>>, << "eip155:8453" >> },
              maxPrice : { <<>>, << 0 >>, << 1 >> },
              query    : { <<>>, << << "d", "a", "t", "a" >> >>,
                           << << "D", "E" >> >> } ],
          response \in
            { [ ok |-> FALSE, services |-> <<>> ] }
                \cup { [ ok |-> TRUE, services |-> sv ] :
                            sv \in { <<>> } \cup { << r >> : r \in Registries } } :
          DiscoverServices(options, response)

SpecDiscovery == InitReceipts /\ [][NextDiscovery]_vars

-----------------------------------------------------------------------------
(* Amounts as IEEE 754 doubles                                               *)

\* A double d with 2^-20 <= d < 8, or zero, is kept as the whole number
\* d * 2^72, written in five digits of base 2^15, the least significant first.
\* Every such double, and every sum of two of them, is a whole number of
\* these units.
LimbBase == 2^15

Limbs == 1..5

ZeroDouble == [ i \in Limbs |-> 0 ]

RECURSIVE CarryInto(_, _, _)
CarryInto(a, b, i) ==
    IF i = 1 THEN 0
    ELSE (a[i - 1] + b[i - 1] + CarryInto(a, b, i - 1)) \div LimbBase

\* The sum of two numbers, digit by digit.
ExactSum(a, b) ==
    [ i \in Limbs |-> (a[i] + b[i] + CarryInto(a, b, i)) % LimbBase ]

\* a > b
Greater(a, b) ==
    \E i \in Limbs : a[i] > b[i] /\ \A j \in Limbs : j > i => a[j] = b[j]

\* The number of binary digits of a number.
BitLength(a) ==
    IF a = ZeroDouble THEN 0
    ELSE LET top == CHOOSE i \in Limbs :
                        a[i] # 0 /\ \A j \in Limbs : j > i => a[j] = 0
             bits == CHOOSE k \in 1..15 : a[top] < 2^k /\ a[top] >= 2^(k - 1)
         IN  15 * (top - 1) + bits

PowerOfTwo(k) ==
    [ i \in Limbs |-> IF i = (k \div 15) + 1 THEN 2^(k % 15) ELSE 0 ]

\* The lowest d binary digits of a number.
LowBits(a, d) ==
    [ i \in Limbs |-> IF i < (d \div 15) + 1 THEN a[i]
                      ELSE IF i = (d \div 15) + 1 THEN a[i] % (2^(d % 15))
                      ELSE 0 ]

\* IEEE 754 rounding to the nearest double, ties to even, of the number
\* a + f, where f < 1 unit is "none" (zero), "below" (under half a unit),
\* "half" or "above": a double holds 53 significant binary digits.
RoundToDouble(a, beyond) ==
    LET over  == BitLength(a) - 53
        d     == IF over > 0 THEN over ELSE 0
        low   == LowBits(a, d)
        high  == [ i \in Limbs |-> a[i] - low[i] ]
        half  == PowerOfTwo(d - 1)
        \* binary digit d of a, the lowest one kept
        kept  == (a[(d \div 15) + 1] \div (2^(d % 15))) % 2
        above == IF d = 0 THEN beyond = "above"
                 ELSE Greater(low, half) \/ (low = half /\ beyond # "none")
        tie   == IF d = 0 THEN beyond = "half"
                 ELSE low = half /\ beyond = "none"
    IN  IF above \/ (tie /\ kept = 1)
        THEN ExactSum(high, PowerOfTwo(d))
        ELSE high

\* The remainder of the first k digits (most significant first) by 5^6.
RECURSIVE Remainder(_, _)
Remainder(digits, k) ==
    IF k = 0 THEN 0
    ELSE (Remainder(digits, k - 1) * LimbBase + digits[k]) % (5^6)

\* parseFloat(formatUnits(BigInt(raw), 6)), and a decimal literal of the
\* policy: the double nearest to micro / 10^6, for micro < 8 * 10^6. In the
\* model's units that is micro * 2^72 / 10^6 = (micro * 2^6) * 2^60 / 5^6.
parseFloat(micro) ==
    LET digits == << (micro * 64) \div LimbBase, (micro * 64) % LimbBase,
                     0, 0, 0, 0 >>
        quotient == [ i \in Limbs |->
                        (Remainder(digits, 6 - i) * LimbBase + digits[7 - i])
                            \div (5^6) ]
        rest == Remainder(digits, 6)
    IN  RoundToDouble(quotient,
                      IF rest = 0 THEN "none"
                      ELSE IF 2 * rest < 5^6 THEN "below" ELSE "above")

\* x + y on doubles
DoubleSum(x, y) == RoundToDouble(ExactSum(x, y), "none")

\* The money checks of checkPayment on doubles, for a policy that sets no
\* velocity, per-recipient or list restriction.
checkPaymentOfDoubles(pol, st, amountUsdc) ==
    IF Greater(amountUsdc, pol.maxPerTransaction)
        THEN Denied("per-transaction")
    ELSE IF Greater(DoubleSum(st.dailySpent, amountUsdc), pol.dailyLimit)
        THEN Denied("daily")
    ELSE IF IsSet(pol.weeklyLimit)
            /\ Greater(DoubleSum(st.weeklySpent, amountUsdc), pol.weeklyLimit[1])
        THEN Denied("weekly")
    ELSE IF IsSet(pol.monthlyLimit)
            /\ Greater(DoubleSum(st.monthlySpent, amountUsdc), pol.monthlyLimit[1])
        THEN Denied("monthly")
    ELSE Allowed

\* recordPayment on doubles, within the periods and the hour the ledger was
\* started in: no total is reset and no velocity entry dropped.
recordPaymentOfDoubles(st, t, amountUsdc, recipient) ==
    LET normalizedRecipient == toLowerCase(recipient)
        entry == [ timestamp |-> t, amount |-> amountUsdc,
                   recipient |-> normalizedRecipient ]
        recipientSpent == IF normalizedRecipient \in DOMAIN st.perRecipient
                          THEN MapGet(st.perRecipient, normalizedRecipient)
                          ELSE ZeroDouble
    IN  [ st EXCEPT
            !.dailySpent   = DoubleSum(@, amountUsdc),
            !.weeklySpent  = DoubleSum(@, amountUsdc),
            !.monthlySpent = DoubleSum(@, amountUsdc),
            !.transactions = @ + 1,
            !.perRecipient = MapPut(@, normalizedRecipient,
                                    DoubleSum(recipientSpent, amountUsdc)),
            !.recentTransactions = Append(@, entry) ]

\* Amounts and limits in millionths of a USDC: 0.000001, 0.1, 0.2, 0.3, 0.7
\* and 0.3, 1.0.
DecimalAmounts == { 1, 100000, 200000, 300000, 700000 }

DecimalLimits == { 300000, 1000000 }

\* A fresh ledger, its totals the double 0, under a policy written with
\* decimal literals: at most 3.00 a payment.
InitDoubles ==
    /\ now = T0
    /\ tz = 0
    /\ peers = Alone
    /\ discovery = NoDiscovery
    /\ \E limit \in DecimalLimits :
          policy = [ BasicPolicy EXCEPT
                        !.maxPerTransaction = parseFloat(3000000),
                        !.dailyLimit = parseFloat(limit) ]
    /\ state = [ loadState(NoFile, T0, tz) EXCEPT !.dailySpent = ZeroDouble,
                                                 !.weeklySpent = ZeroDouble,
                                                 !.monthlySpent = ZeroDouble ]
    /\ file = NoFile
    /\ nRecords = 0
    /\ last = NoCall
    /\ seen = <<>>
    /\ calls = [ c \in CallIds |-> IdleCall ]
    /\ receipts = <<>>
    /\ receiptsFile = NoFile

\* checkPayment(amount, 'b'); seen holds the amounts recorded so far.
CheckPaymentOfDoubles(micro) ==
    /\ last' = [ op |-> "checkDoubles", amount |-> micro, recorded |-> seen,
                 result |-> checkPaymentOfDoubles(policy, state,
                                                  parseFloat(micro)) ]
    /\ UNCHANGED <<now, tz, peers, discovery, policy, state, file, nRecords, seen,
                   clientVars>>

RecordPaymentOfDoubles(micro) ==
    /\ nRecords < MaxRecords
    /\ nRecords' = nRecords + 1
    /\ state' = recordPaymentOfDoubles(state, now, parseFloat(micro), <<"b">>)
    /\ file' = saveState(state')
    /\ seen' = Append(seen, micro)
    /\ last' = [ op |-> "recordDoubles", amount |-> micro ]
    /\ UNCHANGED <<now, tz, peers, discovery, policy, clientVars>>

NextDoubles ==
    \/ \E micro \in DecimalAmounts : CheckPaymentOfDoubles(micro)
    \/ \E micro \in DecimalAmounts : RecordPaymentOfDoubles(micro)

SpecDoubles == InitDoubles /\ [][NextDoubles]_vars

-----------------------------------------------------------------------------
(* Properties *)

WithinMoneyLimits(pol, st) ==
    /\ st.dailySpent <= pol.dailyLimit
    /\ IsSet(pol.weeklyLimit) => st.weeklySpent <= pol.weeklyLimit[1]
    /\ IsSet(pol.monthlyLimit) => st.monthlySpent <= pol.monthlyLimit[1]

\* C1: concurrent fetch calls on one client are serialized over check, pay and
\* record, so that payments which each passed checkPayment never bring the
\* daily, weekly or monthly total above its limit. Stated for the runs in
\* which no call had its payment denied: every recorded amount was allowed.
C1_AllowedPaymentsStayWithinLimits ==
    (\A c \in CallIds : calls[c].checked # <<>> => calls[c].checked[1].allowed)
        => WithinMoneyLimits(policy, state)

\* C3: a fetch whose checkPayment denied the probed payment has appended a
\* blocked receipt and ended in PaymentBlockedError; it never reaches the
\* payment-enabled request, whatever the receipt write and onBlocked do.
C3_DeniedNeverReachesPayment ==
    \A c \in CallIds :
        (calls[c].checked # <<>> /\ ~calls[c].checked[1].allowed) =>
            /\ calls[c].pc = "blocked"
            /\ \E i \in DOMAIN receipts :
                  /\ receipts[i].url = c
                  /\ receipts[i].status = "blocked"
                  /\ receipts[i].blockReason = <<calls[c].checked[1].reason>>

\* A call of fetch that has invoked the payment-enabled request.
Invoked(c) == calls[c].pc \in { "paying", "done", "failed" }

\* C4: every invocation of the payment-enabled request made without
\* skipPolicyCheck was preceded, in the same call, by a checkPayment that
\* returned allowed, whatever the probe came back with.
C4_CheckedBeforeEveryPayment ==
    \A c \in CallIds :
        (Invoked(c) /\ ~calls[c].skipPolicyCheck) =>
            (calls[c].checked # <<>> /\ calls[c].checked[1].allowed)

\* The velocity entries that lie in the trailing hour.
RecentCount == Cardinality({ i \in DOMAIN state.recentTransactions :
                               state.recentTransactions[i].timestamp > now - OneHour })

CheckOrder == << "per-transaction", "daily", "weekly", "monthly", "velocity",
                 "per-recipient", "blocked", "whitelist" >>

SameIgnoringCase(s1, s2) ==
    /\ Len(s1) = Len(s2)
    /\ \A i \in DOMAIN s1 : LowerChar(s1[i]) = LowerChar(s2[i])

Listed(list, r) == \E i \in DOMAIN list : SameIgnoringCase(list[i], r)

Fails(check, a, r) ==
    CASE check = "per-transaction" -> a > policy.maxPerTransaction
      [] check = "daily"   -> state.dailySpent + a > policy.dailyLimit
      [] check = "weekly"  -> IsSet(policy.weeklyLimit)
                              /\ state.weeklySpent + a > policy.weeklyLimit[1]
      [] check = "monthly" -> IsSet(policy.monthlyLimit)
                              /\ state.monthlySpent + a > policy.monthlyLimit[1]
      [] check = "velocity" -> IsSet(policy.maxTransactionsPerHour)
                               /\ RecentCount >= policy.maxTransactionsPerHour[1]
      [] check = "per-recipient" ->
            IsSet(policy.perRecipientDailyLimit)
            /\ \E k \in DOMAIN state.perRecipient :
                  /\ SameIgnoringCase(k, r)
                  /\ state.perRecipient[k] + a > policy.perRecipientDailyLimit[1]
      [] check = "blocked" -> Listed(policy.blockedRecipients, r)
      [] check = "whitelist" -> /\ policy.approvedRecipients # <<>>
                                /\ ~Listed(policy.approvedRecipients, r)

FailingChecks(a, r) == { i \in DOMAIN CheckOrder : Fails(CheckOrder[i], a, r) }

SetMin(S) == CHOOSE x \in S : \A y \in S : x <= y

\* C5: checkPayment gives the reason of the first failing check in the order
\* per-transaction, daily, weekly, monthly, velocity, per-recipient, blacklist,
\* whitelist, and allows when none fails; so an amount above maxPerTransaction
\* is always denied for "per-transaction".
C5_FirstFailingCheckWins ==
    last.op = "check" =>
        LET failing == FailingChecks(last.amount, last.recipient)
        IN  /\ failing = {} => last.result = Allowed
            /\ failing # {} => last.result = Denied(CheckOrder[SetMin(failing)])
            /\ last.amount > policy.maxPerTransaction
                  => last.result = Denied("per-transaction")

\* An amount above the per-transaction limit, to a blacklisted recipient, on a
\* ledger already over its daily limit, denied for "per-transaction".
C5_Witness ==
    /\ last.op = "check"
    /\ last.amount > policy.maxPerTransaction
    /\ state.dailySpent > policy.dailyLimit
    /\ Listed(policy.blockedRecipients, last.recipient)
    /\ last.result = Denied("per-transaction")

\* What a check of this amount and recipient adds its amount to, per limit.
SpentUnder(check, r) ==
    CASE check = "per-transaction" -> 0
      [] check = "daily"   -> state.dailySpent
      [] check = "weekly"  -> state.weeklySpent
      [] check = "monthly" -> state.monthlySpent
      [] check = "per-recipient" -> MapGet(state.perRecipient, [ i \in DOMAIN r |-> LowerChar(r[i]) ])

LimitOf(check) ==
    CASE check = "per-transaction" -> <<policy.maxPerTransaction>>
      [] check = "daily"   -> <<policy.dailyLimit>>
      [] check = "weekly"  -> policy.weeklyLimit
      [] check = "monthly" -> policy.monthlyLimit
      [] check = "per-recipient" -> policy.perRecipientDailyLimit

MoneyChecks == { "per-transaction", "daily", "weekly", "monthly", "per-recipient" }

\* C6: for each monetary limit, a payment that lands exactly on the limit is
\* not denied by that limit, and one that exceeds it by one unit is denied.
C6_ExactLimitAllowedOneOverDenied ==
    last.op = "check" =>
        \A check \in MoneyChecks :
            IsSet(LimitOf(check)) =>
                LET total == SpentUnder(check, last.recipient) + last.amount
                IN  /\ total = LimitOf(check)[1] => last.result.reason # check
                    /\ total = LimitOf(check)[1] + 1 => ~last.result.allowed

\* A payment allowed that lands exactly on the per-transaction, the daily and
\* the per-recipient limit at once.
C6_Witness ==
    /\ last.op = "check"
    /\ last.result.allowed
    /\ last.amount = policy.maxPerTransaction
    /\ state.dailySpent > 0
    /\ state.dailySpent + last.amount = policy.dailyLimit
    /\ IsSet(policy.perRecipientDailyLimit)
    /\ SpentUnder("per-recipient", last.recipient) + last.amount
          = policy.perRecipientDailyLimit[1]

\* C7: a recipient that is, ignoring case, in both blockedRecipients and
\* approvedRecipients is denied, whatever the amount and the ledger.
C7_BlacklistOutranksWhitelist ==
    (/\ last.op = "check"
     /\ Listed(policy.blockedRecipients, last.recipient)
     /\ Listed(policy.approvedRecipients, last.recipient))
        => ~last.result.allowed

\* A recipient in both lists, within every limit, denied as blocked.
C7_Witness ==
    /\ last.op = "check"
    /\ Listed(policy.blockedRecipients, last.recipient)
    /\ Listed(policy.approvedRecipients, last.recipient)
    /\ last.result = Denied("blocked")

SwapChar(c) ==
    CASE c = "A" -> "a" [] c = "a" -> "A"
      [] c = "B" -> "b" [] c = "b" -> "B"
      [] OTHER -> c

SwapCase(s) == [ i \in DOMAIN s |-> SwapChar(s[i]) ]

SwapListCase(list) == [ i \in DOMAIN list |-> SwapCase(list[i]) ]

\* The policy with the case of every letter of its list entries swapped.
SwapPolicyCase(pol) ==
    [ pol EXCEPT !.approvedRecipients = SwapListCase(@),
                 !.blockedRecipients  = SwapListCase(@) ]

\* C8: checkPayment allows or denies alike two recipients that differ only in
\* letter case, and alike under list entries that differ only in letter case.
C8_ListsIgnoreCase ==
    last.op = "check" =>
        /\ \A r \in Recipients :
              SameIgnoringCase(r, last.recipient) =>
                  checkPayment(policy, state, now, last.amount, r).allowed
                      = last.result.allowed
        /\ checkPayment(SwapPolicyCase(policy), state, now,
                        last.amount, last.recipient).allowed
              = last.result.allowed

\* A lower-case recipient allowed by a whitelist that names it in upper case.
C8_Witness ==
    /\ last.op = "check"
    /\ last.result.allowed
    /\ policy.approvedRecipients # <<>>
    /\ \E i \in DOMAIN policy.approvedRecipients :
          /\ policy.approvedRecipients[i] # last.recipient
          /\ SameIgnoringCase(policy.approvedRecipients[i], last.recipient)
    /\ \A i \in DOMAIN policy.approvedRecipients :
          policy.approvedRecipients[i] # last.recipient

\* C9: checkPayment, allowing or denying, changes neither the ledger (totals,
\* transaction counter, per-recipient totals, velocity list), nor the policy,
\* nor the spending file: all that a later decision at the same clock reads is
\* as the call found it.
C9_CheckPaymentChangesNothing ==
    last.op = "check" =>
        /\ state = last.found.state
        /\ policy = last.found.policy
        /\ file = last.found.file

\* A denied check made on a ledger with spending whose day key is out of date.
C9_Witness ==
    /\ last.op = "check"
    /\ ~last.result.allowed
    /\ state.dailySpent > 0
    /\ state.date # getDateKeys(now, tz).date
    /\ file.kind = "json"

\* C10: checkPayment decides with, and getStatus reports, the totals of the
\* current periods: a bucket whose stored key is not the current key counts as
\* zero, also when no recordPayment and no restart has happened since.
C10_ChecksUseCurrentBuckets ==
    LET current == ResetPeriods(state, getDateKeys(now, tz))
    IN  /\ last.op = "check" =>
              last.result = checkPayment(policy, current, now,
                                         last.amount, last.recipient)
        /\ last.op = "status" => last.result = getStatus(policy, current, now)

\* The lower-case spelling of a recipient, letter by letter.
Lowered(r) == [ i \in DOMAIN r |-> LowerChar(r[i]) ]

\* What a ledger holds in the periods current at instant t: a total stored
\* under a key that is not the current one counts as zero.
CurrentDaily(st, t) ==
    IF st.date = getDateKeys(t, tz).date THEN st.dailySpent ELSE 0

CurrentWeekly(st, t) ==
    IF st.weekStart = getDateKeys(t, tz).weekStart THEN st.weeklySpent ELSE 0

CurrentMonthly(st, t) ==
    IF st.monthStart = getDateKeys(t, tz).monthStart THEN st.monthlySpent ELSE 0

CurrentTransactions(st, t) ==
    IF st.date = getDateKeys(t, tz).date THEN st.transactions ELSE 0

CurrentRecipient(st, t, r) ==
    IF st.date = getDateKeys(t, tz).date /\ Lowered(r) \in DOMAIN st.perRecipient
    THEN st.perRecipient[Lowered(r)] ELSE 0

\* The velocity entries of a list that carry the timestamp t.
StampedAt(txs, t) == { i \in DOMAIN txs : txs[i].timestamp = t }

\* C11: recordPayment(a, r) records whatever checkPayment(a, r) would say: it
\* adds a to the daily, weekly and monthly total and to the total of the
\* lower-cased r, adds one to the day's transaction count, appends one
\* velocity entry stamped with the current time, and writes the resulting
\* state to the spending file.
C11_RecordPaymentAlwaysRecords ==
    last.op = "record" =>
        LET found == last.found.state
            a     == last.amount
        IN  /\ state.dailySpent   = CurrentDaily(found, last.at) + a
            /\ state.weeklySpent  = CurrentWeekly(found, last.at) + a
            /\ state.monthlySpent = CurrentMonthly(found, last.at) + a
            /\ CurrentRecipient(state, last.at, last.recipient)
                  = CurrentRecipient(found, last.at, last.recipient) + a
            /\ state.transactions = CurrentTransactions(found, last.at) + 1
            /\ Cardinality(StampedAt(state.recentTransactions, last.at))
                  = Cardinality(StampedAt(found.recentTransactions, last.at)) + 1
            /\ state.recentTransactions[Len(state.recentTransactions)]
                  = [ timestamp |-> last.at, amount |-> a,
                      recipient |-> Lowered(last.recipient) ]
            /\ file.kind = "json"
            /\ file.data = state

\* A payment recorded that checkPayment, asked just before, would have denied.
C11_Witness ==
    /\ last.op = "record"
    /\ last.amount > 0
    /\ ~checkPayment(last.found.policy, last.found.state, last.at,
                     last.amount, last.recipient).allowed
    /\ state.dailySpent > policy.dailyLimit

\* remaining = max(0, limit - spent) in a reported window, if it is reported.
ClampedWindow(w) ==
    w # <<>> => /\ w[1].remaining >= 0
                /\ w[1].remaining = (IF w[1].limit - w[1].spent > 0
                                     THEN w[1].limit - w[1].spent ELSE 0)

ClampedVelocity(w) ==
    w # <<>> => /\ w[1].remaining >= 0
                /\ w[1].remaining = (IF w[1].limit - w[1].count > 0
                                     THEN w[1].limit - w[1].count ELSE 0)

\* C12: getStatus() right after recordPayment(a, r), a >= 0, reports a
\* daily.spent exactly a above, and a daily.remaining exactly a below (clamped
\* at zero), what getStatus() reported right before the call; remaining is
\* max(0, limit - spent) in every window.
C12_RecordRaisesSpentByAmount ==
    (last.op = "record" /\ last.amount >= 0) =>
        LET before == getStatus(last.found.policy, last.found.state, last.at)
            after  == getStatus(policy, state, last.at)
            less   == before.daily.remaining - last.amount
        IN  /\ after.daily.spent = before.daily.spent + last.amount
            /\ after.daily.remaining = (IF less > 0 THEN less ELSE 0)
            /\ ClampedWindow(<<after.daily>>)
            /\ ClampedWindow(after.weekly)
            /\ ClampedWindow(after.monthly)
            /\ ClampedVelocity(after.velocity)

InHourAt(t) == { i \in DOMAIN state.recentTransactions :
                   state.recentTransactions[i].timestamp > t - OneHour }

WithinEarlierLimits(a) ==
    /\ a <= policy.maxPerTransaction
    /\ state.dailySpent + a <= policy.dailyLimit
    /\ IsSet(policy.weeklyLimit) => state.weeklySpent + a <= policy.weeklyLimit[1]
    /\ IsSet(policy.monthlyLimit) => state.monthlySpent + a <= policy.monthlyLimit[1]

\* C14: with maxTransactionsPerHour = N, a checkPayment that is otherwise
\* within limits is denied for velocity exactly when N or more recorded
\* payments lie in the trailing hour; entries older than one hour no longer
\* count, with no restart and no recordPayment needed to drop them.
C14_VelocityFollowsTrailingHour ==
    (/\ last.op = "check"
     /\ IsSet(policy.maxTransactionsPerHour)
     /\ WithinEarlierLimits(last.amount)) =>
        /\ Cardinality(InHourAt(last.at)) >= policy.maxTransactionsPerHour[1]
              => last.result = Denied("velocity")
        /\ Cardinality(InHourAt(last.at)) < policy.maxTransactionsPerHour[1]
              => last.result.reason # "velocity"

\* N payments recorded within one hour are still on the ledger, all older
\* than one hour: a check of a positive amount is allowed.
C14_Witness ==
    /\ last.op = "check"
    /\ IsSet(policy.maxTransactionsPerHour)
    /\ Len(state.recentTransactions) >= policy.maxTransactionsPerHour[1]
    /\ InHourAt(last.at) = {}
    /\ last.amount > 0
    /\ last.result.allowed


\* C15: a new PolicyEnforcer that loads a spending file written under an
\* earlier day's key starts with daily spent 0, transactions 0 and no
\* per-recipient totals, and with the file's weekly and monthly totals where
\* the week key and the month key are those of the file.
C15_LoadRollsDayKeepsWeekAndMonth ==
    (/\ last.op = "load"
     /\ file.kind = "json"
     /\ file.data.date < UtcDay(last.at)) =>
        /\ state.dailySpent = 0
        /\ state.transactions = 0
        /\ DOMAIN state.perRecipient = {}
        /\ getStatus(policy, state, last.at).daily.spent = 0
        /\ file.data.weekStart = getDateKeys(last.at, tz).weekStart
              => state.weeklySpent = file.data.weeklySpent
        /\ file.data.monthStart = getDateKeys(last.at, tz).monthStart
              => state.monthlySpent = file.data.monthlySpent

\* A file with spending written on an earlier day of the same week and month,
\* loaded: the day's totals are gone, the week's and the month's are kept.
C15_Witness ==
    /\ last.op = "load"
    /\ file.kind = "json"
    /\ file.data.date < UtcDay(last.at)
    /\ file.data.dailySpent > 0
    /\ DOMAIN file.data.perRecipient # {}
    /\ file.data.weekStart = getDateKeys(last.at, tz).weekStart
    /\ file.data.monthStart = getDateKeys(last.at, tz).monthStart
    /\ state.dailySpent = 0
    /\ state.weeklySpent > 0
    /\ state.monthlySpent > 0


\* freeze() has been called on this instance's policy: no policy an instance
\* is constructed with has a zero limit.
Frozen == policy.maxPerTransaction = 0 /\ policy.dailyLimit = 0

\* C16: once freeze() has been called, every checkPayment(a, r) with a >= 0,
\* zero included, is denied, for every recipient and every ledger, fresh or
\* with spending, also after a restart on the same policy.
C16_FrozenDeniesEverything ==
    (last.op = "check" /\ Frozen /\ last.amount >= 0) => ~last.result.allowed


\* The ledger of an instance that has recorded nothing: all totals zero.
FreshLedger ==
    /\ state.dailySpent = 0 /\ state.weeklySpent = 0 /\ state.monthlySpent = 0
    /\ state.transactions = 0
    /\ state.recentTransactions = <<>>
    /\ DOMAIN state.perRecipient = {}

\* The recipient passes the lists: not blacklisted, and whitelisted if there
\* is a whitelist.
PassesLists(r) ==
    /\ ~Listed(policy.blockedRecipients, r)
    /\ policy.approvedRecipients = <<>> \/ Listed(policy.approvedRecipients, r)

\* C17 as stated: on a fresh ledger, under any policy, an amount from 0 to
\* maxPerTransaction to a recipient that passes the lists is allowed.
C17_FreshLedgerAllowsUnderMax ==
    (/\ last.op = "check"
     /\ FreshLedger
     /\ 0 <= last.amount /\ last.amount <= policy.maxPerTransaction
     /\ PassesLists(last.recipient)) => last.result.allowed

\* The amount is within every limit that is set besides maxPerTransaction,
\* and the velocity limit, if set, admits at least one payment.
WithinOtherLimits(a) ==
    /\ a <= policy.dailyLimit
    /\ IsSet(policy.weeklyLimit) => a <= policy.weeklyLimit[1]
    /\ IsSet(policy.monthlyLimit) => a <= policy.monthlyLimit[1]
    /\ IsSet(policy.perRecipientDailyLimit) => a <= policy.perRecipientDailyLimit[1]
    /\ IsSet(policy.maxTransactionsPerHour) => policy.maxTransactionsPerHour[1] >= 1

\* C17 as amended: on a fresh ledger, an amount from 0 to maxPerTransaction
\* that is also within dailyLimit and within every weekly, monthly and
\* per-recipient limit that is set, under a velocity limit that is unset or
\* at least 1, to a recipient that passes the lists, is allowed.
C17_FreshLedgerAllowsWithinAllLimits ==
    (/\ last.op = "check"
     /\ FreshLedger
     /\ 0 <= last.amount /\ last.amount <= policy.maxPerTransaction
     /\ WithinOtherLimits(last.amount)
     /\ PassesLists(last.recipient)) => last.result.allowed

\* A positive amount exactly on the per-transaction limit, with every other
\* limit set, allowed to a recipient the whitelist names in another case.
C17_Witness ==
    /\ last.op = "check"
    /\ FreshLedger
    /\ last.amount > 0
    /\ last.amount = policy.maxPerTransaction
    /\ IsSet(policy.weeklyLimit) /\ IsSet(policy.monthlyLimit)
    /\ IsSet(policy.perRecipientDailyLimit)
    /\ policy.maxTransactionsPerHour = <<1>>
    /\ policy.approvedRecipients # <<>>
    /\ policy.blockedRecipients # <<>>
    /\ last.recipient = <<"a">>
    /\ last.result.allowed


\* C18: the daily, weekly and monthly totals and every per-recipient total
\* are never negative, and a recordPayment, whatever amount it is given,
\* leaves no total below what its bucket held when it was called; the other
\* operations leave the totals as they are.
C18_TotalsNeverNegativeNorDecrease ==
    /\ state.dailySpent >= 0
    /\ state.weeklySpent >= 0
    /\ state.monthlySpent >= 0
    /\ \A k \in DOMAIN state.perRecipient : state.perRecipient[k] >= 0
    /\ last.op = "record" =>
          /\ state.dailySpent   >= CurrentDaily(last.found.state, last.at)
          /\ state.weeklySpent  >= CurrentWeekly(last.found.state, last.at)
          /\ state.monthlySpent >= CurrentMonthly(last.found.state, last.at)
          /\ \A r \in Recipients :
                CurrentRecipient(state, last.at, r)
                    >= CurrentRecipient(last.found.state, last.at, r)
    /\ last.op = "check" =>
          /\ state.dailySpent   >= last.found.state.dailySpent
          /\ state.weeklySpent  >= last.found.state.weeklySpent
          /\ state.monthlySpent >= last.found.state.monthlySpent

\* C19: a checkPayment with a negative amount gives no decision that allows
\* the payment, and a recordPayment with a negative amount leaves the ledger
\* and the spending file as it found them.
C19_NegativeAmountRejected ==
    /\ (last.op = "check" /\ last.amount < 0) =>
          /\ ~last.result.allowed
          /\ state = last.found.state /\ file = last.found.file
    /\ (last.op = "record" /\ last.amount < 0) =>
          /\ state = last.found.state /\ file = last.found.file


Terminal == { "blocked", "success", "failed" }

\* C20: a receipt's status only ever goes from pending to success or to
\* failed; updateReceipt changes no field of a receipt that is blocked,
\* success or failed; and only blocked receipts carry a blockReason.
C20_ReceiptLifecycle ==
    /\ \A i \in DOMAIN receipts :
          receipts[i].blockReason # <<>> => receipts[i].status = "blocked"
    /\ last.op = "update" =>
          \A i \in DOMAIN last.found :
              /\ last.found[i].status \in Terminal => receipts[i] = last.found[i]
              /\ receipts[i].status # last.found[i].status =>
                    /\ last.found[i].status = "pending"
                    /\ receipts[i].status \in { "success", "failed" }


\* C21: updateReceipt with an id that no stored receipt has returns null and
\* leaves the receipt list and the receipts file as they were.
C21_UnknownIdChangesNothing ==
    (/\ last.op = "update"
     /\ \A i \in DOMAIN last.found : last.found[i].id # last.id) =>
        /\ last.result = <<>>
        /\ receipts = last.found
        /\ receiptsFile = last.foundFile

\* An update with an unknown id on a store that holds receipts.
C21_Witness ==
    /\ last.op = "update"
    /\ last.found # <<>>
    /\ \A i \in DOMAIN last.found : last.found[i].id # last.id
    /\ last.result = <<>>
    /\ receiptsFile.kind = "json"


StoredIds(list) == { list[i].id : i \in DOMAIN list }

\* C22: createReceipt and recordBlocked each append one receipt at the end of
\* the list, pending and blocked with the given reason, under an id no stored
\* receipt has, and persist the list; updateReceipt removes and reorders
\* nothing; the stored ids are pairwise distinct.
C22_AppendOnlyUniqueIds ==
    /\ \A i, j \in DOMAIN receipts : i # j => receipts[i].id # receipts[j].id
    /\ last.op \in { "create", "blocked" } =>
          /\ Len(receipts) = Len(last.found) + 1
          /\ \A i \in DOMAIN last.found : receipts[i] = last.found[i]
          /\ receipts[Len(receipts)].id \notin StoredIds(last.found)
          /\ receiptsFile.kind = "json" /\ receiptsFile.data = receipts
    /\ last.op = "create" =>
          /\ receipts[Len(receipts)].status = "pending"
          /\ receipts[Len(receipts)].blockReason = <<>>
    /\ last.op = "blocked" =>
          /\ receipts[Len(receipts)].status = "blocked"
          /\ receipts[Len(receipts)].blockReason = << last.reason >>
    /\ last.op = "update" =>
          /\ Len(receipts) = Len(last.found)
          /\ \A i \in DOMAIN last.found : receipts[i].id = last.found[i].id


\* C23: getRecent(n), n >= 0, returns the min(n, total) receipts appended
\* last, newest first, and getHistory(limit) returns at most limit receipts.
C23_RecentReturnsNewestN ==
    /\ last.op = "recent" =>
          /\ Len(last.result) = (IF last.limit < Len(receipts)
                                 THEN last.limit ELSE Len(receipts))
          /\ \A k \in DOMAIN last.result :
                last.result[k] = receipts[Len(receipts) - k + 1]
    /\ (last.op = "history" /\ last.limit # <<>>) =>
          Len(last.result) <= last.limit[1]


\* Reading a text as CSV (RFC 4180): rows are separated by line breaks and
\* fields by commas, except inside double quotes; a field enclosed in double
\* quotes stands for its inside, where a doubled quote stands for one quote.
Quoted(text, i) ==
    Cardinality({ j \in 1..(i - 1) : text[j] = "\"" }) % 2 = 1

Breaks(text, c) == { i \in DOMAIN text : text[i] = c /\ ~Quoted(text, i) }

Nth(positions, k) ==
    CHOOSE p \in positions : Cardinality({ q \in positions : q < p }) = k - 1

Pieces(text, cuts) ==
    [ k \in 1..(Cardinality(cuts) + 1) |->
        SubSeq(text,
               IF k = 1 THEN 1 ELSE Nth(cuts, k - 1) + 1,
               IF k = Cardinality(cuts) + 1 THEN Len(text) ELSE Nth(cuts, k) - 1) ]

\* The number of double quotes in a row that end at position j.
QuoteRun(text, j) ==
    j - SetMax({ 0 } \cup { k \in 1..j : text[k] # "\"" })

Undouble(text) ==
    LET kept == { j \in DOMAIN text : text[j] = "\"" => QuoteRun(text, j) % 2 = 1 }
    IN  [ k \in 1..Cardinality(kept) |-> text[Nth(kept, k)] ]

Unquote(field) ==
    IF Len(field) >= 2 /\ field[1] = "\"" /\ field[Len(field)] = "\""
    THEN Undouble(SubSeq(field, 2, Len(field) - 1))
    ELSE field

ParseCsv(text) ==
    LET rows == Pieces(text, Breaks(text, "\n"))
    IN  [ r \in DOMAIN rows |->
            LET fields == Pieces(rows[r], Breaks(rows[r], ","))
            IN  [ f \in DOMAIN fields |-> Unquote(fields[f]) ] ]

\* The ten values of a receipt in header order, an undefined one as the empty
\* text.
ValuesOf(receipt) ==
    [ i \in DOMAIN CsvHeaders |->
        IF FieldOf(receipt, CsvHeaders[i]) = <<>> THEN <<>>
        ELSE FieldOf(receipt, CsvHeaders[i])[1] ]

\* C24: exportCsv gives the header line and then one row per receipt in
\* creation order, ten fields each in header order, undefined fields empty,
\* such that reading the text as CSV gives back every receipt's ten values,
\* whatever strings the receipts hold.
C24_CsvRoundTrips ==
    last.op = "csv" =>
        ParseCsv(last.result)
            = << [ i \in DOMAIN CsvHeaders |-> << CsvHeaders[i] >> ] >>
                \o [ i \in DOMAIN last.found |-> ValuesOf(last.found[i]) ]


\* A state with nothing spent that carries the period keys of instant t.
FreshAt(st, t) ==
    /\ st.dailySpent = 0 /\ st.weeklySpent = 0 /\ st.monthlySpent = 0
    /\ st.transactions = 0
    /\ st.recentTransactions = <<>>
    /\ st.perRecipient = EmptyMap
    /\ st.date = getDateKeys(t, tz).date
    /\ st.weekStart = getDateKeys(t, tz).weekStart
    /\ st.monthStart = getDateKeys(t, tz).monthStart

\* C25: a PolicyEnforcer built on a spending file that does not parse starts
\* from the fresh default state (zero totals and transaction count, empty
\* velocity list and per-recipient map, current period keys), a ReceiptStore
\* built on a receipts file that does not parse starts with no receipts, and
\* the next recordPayment or createReceipt on that instance works as on a
\* fresh one and leaves a well-formed file.
C25_UnparseableFileStartsFresh ==
    /\ (last.op = "load" /\ file.kind = "corrupt") => FreshAt(state, now)
    /\ (last.op = "loadReceipts" /\ receiptsFile.kind = "corrupt") => receipts = <<>>
    /\ (last.op = "record" /\ last.found.file.kind = "corrupt"
            /\ FreshAt(last.found.state, last.at))
          => /\ state.dailySpent = last.amount
             /\ state.weeklySpent = last.amount
             /\ state.monthlySpent = last.amount
             /\ state.transactions = 1
             /\ Len(state.recentTransactions) = 1
             /\ MapGet(state.perRecipient, toLowerCase(last.recipient)) = last.amount
             /\ file = saveState(state)
    /\ (last.op = "create" /\ last.foundFile.kind = "corrupt" /\ last.found = <<>>)
          => /\ Len(receipts) = 1
             /\ receiptsFile = saveReceipts(receipts)

\* A restart that found a damaged spending file where a payment had been
\* recorded.
C25_Witness ==
    /\ last.op = "load"
    /\ file.kind = "corrupt"
    /\ nRecords > 0


\* C26: when the process stops during recordPayment's write of the spending
\* file, the next load sees the complete state from before the call or the
\* complete state after it, never the default state of an unreadable file.
C26_InterruptedWriteIsAllOrNothing ==
    last.op = "interrupted" =>
        \/ state = loadState(last.found.file, now, tz)
        \/ state = loadState(saveState(recordPayment(last.found.state, now, tz,
                                                      last.amount, last.recipient)),
                              now, tz)


\* The state a new PolicyEnforcer on the same path starts from now.
Reloaded == loadState(file, now, tz)

\* C27: once payments have been recorded, a new PolicyEnforcer built on the
\* same path at the same instant with the same policy gives the same
\* getStatus and the same checkPayment decision for every amount and
\* recipient as the instance that recorded them.
C27_RestartSeesSameLedger ==
    nRecords > 0 =>
        /\ getStatus(policy, Reloaded, now) = getStatus(policy, state, now)
        /\ \A a \in Amounts, r \in Recipients :
              checkPayment(policy, Reloaded, now, a, r)
                  = checkPayment(policy, state, now, a, r)


\* The calls of fetch that found a payment demand and put it to the policy,
\* and that have returned or thrown.
Attempts ==
    { c \in CallIds : calls[c].checked # <<>>
                        /\ calls[c].pc \in { "blocked", "failed", "done" } }

ReceiptsOf(c) == { i \in DOMAIN receipts : receipts[i].url = c }

\* C28: every payment attempt made through fetch is logged as exactly one
\* receipt whose status tells the outcome: blocked when the policy denied it,
\* failed when the paid request threw, success or failed when the paid
\* request completed; and no receipt is pending once fetch is over.
C28_OneReceiptPerAttempt ==
    /\ \A c \in Attempts :
          /\ Cardinality(ReceiptsOf(c)) = 1
          /\ \A i \in ReceiptsOf(c) :
                receipts[i].status
                    \in CASE calls[c].pc = "blocked" -> { "blocked" }
                           [] calls[c].pc = "failed"  -> { "failed" }
                           [] OTHER                   -> { "success", "failed" }
    /\ \A i \in DOMAIN receipts : receipts[i].status # "pending"


\* C29: requiresApproval(amount) is true unless autoApproveUnder is set and
\* the amount is below it; it is true when the amount equals autoApproveUnder
\* and when autoApproveUnder is not set; and it changes neither the ledger,
\* nor the policy, nor the spending file.
C29_ApprovalUnlessUnderThreshold ==
    last.op = "approval" =>
        /\ last.result = ~(IsSet(policy.autoApproveUnder)
                             /\ last.amount < policy.autoApproveUnder[1])
        /\ (IsSet(policy.autoApproveUnder)
               /\ last.amount = policy.autoApproveUnder[1]) => last.result
        /\ ~IsSet(policy.autoApproveUnder) => last.result
        /\ state = last.found.state
        /\ policy = last.found.policy
        /\ file = last.found.file

\* requiresApproval asked about the threshold amount itself, on a ledger that
\* holds a payment.
C29_Witness ==
    /\ last.op = "approval"
    /\ IsSet(policy.autoApproveUnder)
    /\ last.amount = policy.autoApproveUnder[1]
    /\ last.result
    /\ nRecords > 0


\* The entries of a velocity list that are older than one hour at t, those
\* that are not, and those that are younger than one hour.
Older(txs, t) == { i \in DOMAIN txs : txs[i].timestamp < t - OneHour }

NotOlder(txs, t) == { i \in DOMAIN txs : txs[i].timestamp >= t - OneHour }

Younger(txs, t) == { i \in DOMAIN txs : txs[i].timestamp > t - OneHour }

\* The velocity list a load or a recordPayment started from.
VelocityBefore ==
    IF last.op = "record" THEN last.found.state.recentTransactions
    ELSE IF file.kind = "json" THEN file.data.recentTransactions
    ELSE <<>>

\* The entries recordPayment appends.
Pushed == IF last.op = "record" THEN 1 ELSE 0

\* C30: after a load and after every recordPayment the stored velocity list
\* holds no entry older than one hour (3,600,000 ms) and holds every earlier
\* entry that is not older than one hour; getStatus counts exactly the
\* entries not older than one hour, and checkPayment weighs exactly those
\* against maxTransactionsPerHour.
C30_WindowKeepsAllNotOlder ==
    /\ last.op \in { "load", "record" } =>
          /\ Older(state.recentTransactions, last.at) = {}
          /\ Len(state.recentTransactions)
                = Cardinality(NotOlder(VelocityBefore, last.at)) + Pushed
    /\ (last.op = "status" /\ IsSet(policy.maxTransactionsPerHour)) =>
          last.result.velocity[1].count
              = Cardinality(NotOlder(state.recentTransactions, last.at))
    /\ (/\ last.op = "check"
        /\ IsSet(policy.maxTransactionsPerHour)
        /\ WithinEarlierLimits(last.amount)) =>
          (last.result = Denied("velocity"))
              = (Cardinality(NotOlder(state.recentTransactions, last.at))
                    >= policy.maxTransactionsPerHour[1])

\* C30 as amended: after a load and after every recordPayment the stored
\* velocity list holds no entry that is one hour (3,600,000 ms) old or older
\* and holds every earlier entry that is younger than one hour; getStatus
\* counts exactly the entries younger than one hour, and checkPayment weighs
\* exactly those against maxTransactionsPerHour.
C30_WindowKeepsAllYounger ==
    /\ last.op \in { "load", "record" } =>
          /\ Younger(state.recentTransactions, last.at)
                = DOMAIN state.recentTransactions
          /\ Len(state.recentTransactions)
                = Cardinality(Younger(VelocityBefore, last.at)) + Pushed
    /\ (last.op = "status" /\ IsSet(policy.maxTransactionsPerHour)) =>
          last.result.velocity[1].count
              = Cardinality(Younger(state.recentTransactions, last.at))
    /\ (/\ last.op = "check"
        /\ IsSet(policy.maxTransactionsPerHour)
        /\ WithinEarlierLimits(last.amount)) =>
          (last.result = Denied("velocity"))
              = (Cardinality(Younger(state.recentTransactions, last.at))
                    >= policy.maxTransactionsPerHour[1])

\* A load of a spending file whose velocity list holds an entry that is one
\* hour old to the tick: the entry is dropped.
C30_Witness ==
    /\ last.op = "load"
    /\ file.kind = "json"
    /\ \E i \in DOMAIN file.data.recentTransactions :
          file.data.recentTransactions[i].timestamp = last.at - OneHour
    /\ Len(state.recentTransactions) < Len(file.data.recentTransactions)


\* C31: recordPayment resets each bucket exactly when its stored key differs
\* from the current key, each on its own: a new day zeroes dailySpent, the
\* transaction count and every per-recipient total before the payment is
\* added and leaves the weekly and monthly totals of an unchanged week and
\* month in full; a stale bucket restarts from zero.
C31_RecordResetsBucketsIndependently ==
    last.op = "record" =>
        LET found == last.found.state
            keys  == getDateKeys(last.at, tz)
            a     == last.amount
            r     == toLowerCase(last.recipient)
        IN  /\ state.date = keys.date
            /\ state.weekStart = keys.weekStart
            /\ state.monthStart = keys.monthStart
            /\ state.dailySpent
                  = (IF found.date # keys.date THEN 0 ELSE found.dailySpent) + a
            /\ state.transactions
                  = (IF found.date # keys.date THEN 0 ELSE found.transactions) + 1
            /\ state.perRecipient
                  = (IF found.date # keys.date
                     THEN MapPut(EmptyMap, r, a)
                     ELSE MapPut(found.perRecipient, r,
                                 MapGet(found.perRecipient, r) + a))
            /\ state.weeklySpent
                  = (IF found.weekStart # keys.weekStart THEN 0
                     ELSE found.weeklySpent) + a
            /\ state.monthlySpent
                  = (IF found.monthStart # keys.monthStart THEN 0
                     ELSE found.monthlySpent) + a

\* A payment recorded on a new day of the same week and month, on a ledger
\* that holds earlier spend of that week.
C31_Witness ==
    /\ last.op = "record"
    /\ last.found.state.date # state.date
    /\ last.found.state.weekStart = state.weekStart
    /\ last.found.state.monthStart = state.monthStart
    /\ last.found.state.dailySpent > 0
    /\ state.weeklySpent = last.found.state.weeklySpent + last.amount
    /\ state.dailySpent = last.amount


\* The Monday of the UTC week a UTC day lies in (day 0 is a Monday).
UtcMonday(day) == day - (day % 7)

\* C32: whatever the instant and the host's timezone offset, the period keys
\* a load or a recordPayment leaves on the ledger are the current UTC date,
\* the UTC date of the Monday of the current UTC week (a Monday, at most six
\* days before the date) and the first day of the current UTC month.
C32_PeriodKeysAreUtc ==
    last.op \in { "load", "record" } =>
        /\ state.date = UtcDay(last.at)
        /\ state.weekStart = UtcMonday(UtcDay(last.at))
        /\ getDay(state.weekStart) = 1
        /\ state.date - state.weekStart \in 0..6
        /\ state.monthStart = MonthStartOf(UtcDay(last.at))


\* The total checkPayment holds against perRecipientDailyLimit for r.
RecipientSpent(st, r) == MapGet(st.perRecipient, toLowerCase(r))

\* C33: recordPayment(a, r1) raises by a the total that the per-recipient
\* check uses for every recipient equal to r1 ignoring letter case, and leaves
\* the total, and so the per-recipient check of any amount, of every other
\* recipient as it was.
C33_RecipientTotalsAreIndependent ==
    last.op = "record" =>
        \A r \in Recipients :
            IF SameIgnoringCase(r, last.recipient)
            THEN RecipientSpent(state, r)
                    = RecipientSpent(last.found.state, r) + last.amount
            ELSE /\ RecipientSpent(state, r) = RecipientSpent(last.found.state, r)
                 /\ IsSet(policy.perRecipientDailyLimit) =>
                       \A b \in Amounts :
                           Exceeds(RecipientSpent(state, r) + b,
                                   policy.perRecipientDailyLimit[1])
                             = Exceeds(RecipientSpent(last.found.state, r) + b,
                                       policy.perRecipientDailyLimit[1])


\* The sum of a map's values.
RECURSIVE MapSum(_)
MapSum(m) ==
    IF DOMAIN m = {} THEN 0
    ELSE LET k == CHOOSE x \in DOMAIN m : TRUE
         IN  m[k] + MapSum([ x \in (DOMAIN m) \ {k} |-> m[x] ])

\* The recordPayment calls made on the day the ledger's day key names: those
\* since the ledger's last daily reset.
RecordsSinceReset == { i \in DOMAIN seen : UtcDay(seen[i].at) = state.date }

C35_DayWithinWeekAndMonth ==
    /\ state.dailySpent <= state.weeklySpent
    /\ state.dailySpent <= state.monthlySpent


\* C36: a payment that fetch sees settled raises the ledger's dailySpent by
\* the amount the server asked for it and adds one velocity entry for its
\* recipient, whether or not the policy check ran for that call.
C36_SettledPaymentsReachTheLedger ==
    (/\ last.op = "paid"
     /\ last.outcome = "settled"
     /\ calls[last.call].demanded # <<>>) =>
        LET demand == calls[last.call].demanded[1]
            txs    == state.recentTransactions
        IN  /\ state.dailySpent
                  = CurrentDaily(last.found.state, last.at) + demand.amount
            /\ txs # <<>>
            /\ txs[Len(txs)].recipient = toLowerCase(demand.payTo)
            /\ txs[Len(txs)].amount = demand.amount
            /\ Cardinality(StampedAt(txs, last.at))
                  = Cardinality(StampedAt(last.found.state.recentTransactions,
                                          last.at)) + 1


\* The policy the first instance was built with, and the one a holder was
\* built with.
FirstBuiltWith ==
    IF peers["DEFAULT_POLICY"] = <<>> THEN DefaultPolicy ELSE LimitsPolicy

BuiltWith(h) == IF peers[h] = <<>> THEN FirstBuiltWith ELSE peers[h][1]

\* C37: whatever the first instance does, freeze() included, the exported
\* DEFAULT_POLICY keeps its values, and every other PolicyEnforcer decides
\* every checkPayment and reports every getStatus as under the policy it was
\* built with, also when it was built with the same policy object or with
\* the default policy.
C37_FreezeStaysInItsInstance ==
    /\ PolicyOf("DEFAULT_POLICY") = DefaultPolicy
    /\ \A h \in (DOMAIN peers) \ { "DEFAULT_POLICY" } :
          /\ getStatus(PolicyOf(h), defaultState(now, tz), now)
                = getStatus(BuiltWith(h), defaultState(now, tz), now)
          /\ \A a \in Amounts, r \in Recipients :
                checkPayment(PolicyOf(h), defaultState(now, tz), now, a, r)
                  = checkPayment(BuiltWith(h), defaultState(now, tz), now, a, r)


\* C38: when fetch calls onPayment, the payment is on the spending ledger and
\* in the spending file, the store and the receipts file hold the receipt
\* with status success, and the receipt handed to the callback has status
\* success as well.
C38_CallbackSeesFinalReceipt ==
    (last.op = "paid" /\ last.onPayment # <<>>) =>
        LET handed == last.onPayment[1]
            call   == calls[last.call]
        IN  /\ state.dailySpent
                  = CurrentDaily(last.found.state, last.at) + call.expectedAmount
            /\ file = saveState(state)
            /\ \E i \in DOMAIN receipts :
                  /\ receipts[i].id = handed.id
                  /\ receipts[i].status = "success"
                  /\ handed.status = receipts[i].status
            /\ receiptsFile.kind = "json"
            /\ \E j \in DOMAIN receiptsFile.data :
                  /\ receiptsFile.data[j].id = handed.id
                  /\ receiptsFile.data[j].status = "success"
            /\ handed.status = "success"


\* A service passes every filter the options supply.
PassesAll(sv, options) ==
    /\ options.category # <<>> => sv.category = options.category[1]
    /\ options.network # <<>> =>
          \E i \in DOMAIN sv.networks : sv.networks[i] = options.network[1]
    /\ options.maxPrice # <<>> => sv.priceRange.min <= options.maxPrice[1]
    /\ options.query # <<>> =>
          LET q == toLowerCase(options.query[1])
          IN  \/ includes(toLowerCase(sv.name), q)
              \/ includes(toLowerCase(sv.description), q)
              \/ includes(sv.category, q)

\* C40: discoverServices returns exactly the registry services that pass
\* every filter its options supply (category, network, maxPrice, query), for
\* every combination of filters, and all of them when none is supplied.
C40_DiscoverCombinesFilters ==
    last.op = "discover" =>
        last.result
            = SelectSeq(last.services, LAMBDA sv : PassesAll(sv, last.options))


\* The exact total, in millionths, of amounts given in millionths.
RECURSIVE ExactTotal(_)
ExactTotal(amounts) ==
    IF amounts = <<>> THEN 0
    ELSE amounts[Len(amounts)] + ExactTotal(SubSeq(amounts, 1, Len(amounts) - 1))

\* The daily limit as the policy's author wrote it, in millionths.
ExactLimit == CHOOSE l \in DecimalLimits : parseFloat(l) = policy.dailyLimit

\* C39: for amounts of up to six decimal places and every sequence of
\* recorded amounts, checkPayment denies a payment whose exact decimal total
\* exceeds the daily limit and allows one whose exact total equals it.
C39_LimitComparisonsAreExact ==
    last.op = "checkDoubles" =>
        LET total == ExactTotal(last.recorded) + last.amount
        IN  /\ total > ExactLimit => ~last.result.allowed
            /\ total = ExactLimit => last.result.allowed

====
